---- MODULE Spec2Model ----
(***************************************************************************)
(* certstore: the certificate wire codec (PEM normalizer, decoders,        *)
(* identity function, consistency validator), the User cascade and the     *)
(* HTTP handlers that call them.                                           *)
(*                                                                         *)
(* Text is a sequence of tokens.  The five-dash delimiter, the space and   *)
(* the newline are tokens of their own, every word of a marker line is a   *)
(* token, and a base64 payload is one token carrying the DER value it      *)
(* encodes.  A big integer v > 0 is the pair (bits, r) with                *)
(* v = 2^(bits-1) + r, so that BitLen and Cmp are exact.                   *)
(***************************************************************************)
EXTENDS Integers, Sequences, FiniteSets, TLC

VARIABLES
    OptVerifyCertificate,  \* main.go:332, fixed when the process starts
    certData,              \* the wire record handed to the codec
    pc,                    \* position of the codec run
    result,                \* what NewCertificateFromData(certData) returned
    encoded,               \* GetData() of the returned record
    result2,               \* NewCertificateFromData(encoded)
    receiver,              \* the *Certificate UnmarshalJSON is called on
    receiverBefore,        \* that receiver as it was when the call started
    unmarshalErr,          \* what UnmarshalJSON returned
    user,                  \* the User a handler or ValidateNormalize works on
    userBefore,            \* that User as it was when the call started
    validateErr,           \* what User.ValidateNormalize returned
    db,                    \* the PostgreSQL store: user rows, cert rows, serial
    dbWrites,              \* persistence writes the current request performed
    response,              \* what the current request wrote to the client
    handler,               \* which handler produced response
    call,                  \* the last call made from outside: op, args, err
    dbBefore,              \* the store as it was when that call started
    tx,                    \* the transaction of a running DatabaseCreateUser
    reader,                \* a running DatabaseReadUser
    patch,                 \* the running UpdateUserHandler requests
    del                    \* the transaction of a running DatabaseDeleteUser

vars == <<OptVerifyCertificate, certData, pc, result, encoded, result2, receiver,
          receiverBefore, unmarshalErr, user, userBefore, validateErr, db, dbWrites, response,
          handler, call, dbBefore, tx, reader, patch, del>>

codecVars == <<certData, pc, result, encoded, result2, receiver, receiverBefore,
              unmarshalErr>>
storeVars == <<call, dbBefore, tx, reader, patch, del>>
serverVars == <<user, userBefore, validateErr, db, dbWrites, response, handler, storeVars>>

----------------------------------------------------------------------------
(* Bounds of the model *)

\* big integers take the discriminators 0..MaxTag at each bit length
MaxTag == 1
\* bit lengths range from one below a minimum to BitsAbove above it
BitsAbove == 0
\* a User carries at most MaxCerts certificates
MaxCerts == 2

----------------------------------------------------------------------------
(* Options and errors *)

OptMinimumRSABits == 1024
OptMinimumECBits == 160

NoError == "nil"
ErrDSANotSupported == "ErrDSANotSupported"
ErrInvalidPEMBlock == "ErrInvalidPEMBlock"
ErrInvalidCertificatePEM == "ErrInvalidCertificatePEM"
ErrInvalidCertificateId == "ErrInvalidCertificateId"
ErrInvalidPrivateKey == "ErrInvalidPrivateKey"
ErrMissingPrivateKey == "ErrMissingPrivateKey"
ErrKeyTooSmall == "ErrKeyTooSmall"
\* errors of the standard library that are passed through unchanged
ErrASN1 == "asn1: structure error"
ErrX509Verify == "x509: certificate signed by unknown authority"

----------------------------------------------------------------------------
(* Big integers *)

Big(bits, r) == [bits |-> bits, r |-> r]
Zero == Big(0, 0)
BitLen(v) == v.bits
\* big.Int.Cmp(a, b) # 0
CmpNonZero(a, b) == a.bits # b.bits \/ a.r # b.r

----------------------------------------------------------------------------
(* DER values: what a base64 payload decodes to *)

Der(asn, alg, n, x, y, chain) ==
    [asn |-> asn, alg |-> alg, n |-> n, x |-> x, y |-> y, chain |-> chain]
NoBytes == Der("empty", "none", Zero, Zero, Zero, FALSE)
Garbage == Der("garbage", "none", Zero, Zero, Zero, FALSE)

\* a certificate with an RSA, an EC or another (DSA) public key
CertRSA(n, chain) == Der("x509", "RSA", n, Zero, Zero, chain)
CertEC(x, y, chain) == Der("x509", "EC", Zero, x, y, chain)
CertOther(chain) == Der("x509", "OTHER", Zero, Zero, Zero, chain)
\* private keys in PKCS1, SEC1 and PKCS8 form
KeyPKCS1(n) == Der("pkcs1", "RSA", n, Zero, Zero, FALSE)
KeySEC1(x, y) == Der("sec1", "EC", Zero, x, y, FALSE)
KeyPKCS8(alg, n, x, y) == Der("pkcs8", alg, n, x, y, FALSE)

----------------------------------------------------------------------------
(* Tokens and text *)

Tok(k, b) == [k |-> k, b |-> b]
W(word) == Tok(word, NoBytes)
Delim == W("-----")
SP == W(" ")
NL == W("\n")
B64(der) == Tok("base64", der)

TypeCertificate == <<W("CERTIFICATE")>>
TypeRSA == <<W("RSA"), SP, W("PRIVATE"), SP, W("KEY")>>
TypeEC == <<W("EC"), SP, W("PRIVATE"), SP, W("KEY")>>
TypeDSA == <<W("DSA"), SP, W("PRIVATE"), SP, W("KEY")>>
TypePKCS8 == <<W("PRIVATE"), SP, W("KEY")>>
TypeParams == <<W("EC"), SP, W("PARAMETERS")>>

\* strings.Split(s, "-----"): the segments between the delimiters
RECURSIVE SplitFrom(_, _, _)
SplitFrom(s, i, cur) ==
    IF i > Len(s) THEN <<cur>>
    ELSE IF s[i] = Delim THEN <<cur>> \o SplitFrom(s, i + 1, <<>>)
    ELSE SplitFrom(s, i + 1, Append(cur, s[i]))
Split(s) == SplitFrom(s, 1, <<>>)

\* strings.Join(parts, "-----")
RECURSIVE JoinFrom(_, _)
JoinFrom(parts, i) ==
    IF i > Len(parts) THEN <<>>
    ELSE IF i = Len(parts) THEN parts[i]
    ELSE parts[i] \o <<Delim>> \o JoinFrom(parts, i + 1)
Join(parts) == JoinFrom(parts, 1)

\* strings.Replace(s, " ", "\n", -1)
ReplaceSpaces(s) == [i \in 1..Len(s) |-> IF s[i] = SP THEN NL ELSE s[i]]

PEMResult(bytes, err) == [bytes |-> bytes, err |-> err]

\* PEMBlockNormalize that lets further blocks follow the first
PEMBlockNormalizeFirstBlock(jsonpem) ==
    LET parts == Split(jsonpem) IN
    IF Len(parts) < 5 THEN PEMResult(<<>>, ErrInvalidPEMBlock)
    ELSE PEMResult(Join([parts EXCEPT ![3] = ReplaceSpaces(parts[3])]), NoError)

\* PEMBlockNormalize that replaces the spaces of every segment
PEMBlockNormalizeAllSegments(jsonpem) ==
    LET parts == Split(jsonpem) IN
    IF Len(parts) # 5 THEN PEMResult(<<>>, ErrInvalidPEMBlock)
    ELSE PEMResult(Join([i \in 1..5 |-> ReplaceSpaces(parts[i])]), NoError)

PEMBlockNormalize(jsonpem) ==
    LET parts == Split(jsonpem) IN
    IF Len(parts) # 5 THEN PEMResult(<<>>, ErrInvalidPEMBlock)
    ELSE PEMResult(Join([parts EXCEPT ![3] = ReplaceSpaces(parts[3])]), NoError)

----------------------------------------------------------------------------
(* encoding/pem *)

Block(ok, type, bytes) == [ok |-> ok, Type |-> type, Bytes |-> bytes]
NilBlock == Block(FALSE, <<>>, NoBytes)

IsSpace(t) == t = SP \/ t = NL
NonSpace(s) == SelectSeq(s, LAMBDA t : ~IsSpace(t))
\* the tokens of s up to its first newline
RECURSIVE FirstLine(_, _)
FirstLine(s, i) ==
    IF i > Len(s) \/ s[i] = NL THEN <<>> ELSE <<s[i]>> \o FirstLine(s, i + 1)

\* base64 decoding of a PEM body, newlines ignored: the bytes, or an error
\* when the body is not base64
DecodeBody(body) ==
    LET inner == NonSpace(body) IN
    IF Len(inner) = 0 THEN [ok |-> TRUE, bytes |-> NoBytes]
    ELSE IF Len(inner) = 1 /\ inner[1].k = "base64" THEN [ok |-> TRUE, bytes |-> inner[1].b]
    ELSE [ok |-> FALSE, bytes |-> NoBytes]

\* pem.Decode: the block of a well-framed text, nil when its body is not base64
DecodedBlock(type, decoded) ==
    IF decoded.ok THEN Block(TRUE, type, decoded.bytes) ELSE NilBlock

\* pem.Decode: the first PEM block of data, or nil
PemDecode(data) ==
    LET parts == Split(data) IN
    IF Len(parts) < 5 THEN NilBlock
    ELSE
      LET lead == parts[1]
          begin == parts[2]
          body == parts[3]
          end == parts[4]
          trail == parts[5]
          type == SubSeq(begin, 3, Len(begin))
      IN
      IF /\ (Len(lead) = 0 \/ lead[Len(lead)] = NL)
         /\ Len(begin) >= 2 /\ begin[1] = W("BEGIN") /\ begin[2] = SP
         /\ Len(body) >= 1 /\ body[1] = NL /\ body[Len(body)] = NL
         /\ \A i \in 1..Len(body) : body[i] # SP
         /\ end = <<W("END"), SP>> \o type
         /\ NonSpace(FirstLine(trail, 1)) = <<>>
      THEN DecodedBlock(type, DecodeBody(body))
      ELSE NilBlock

\* pem.EncodeToMemory
PemEncodeToMemory(type, bytes) ==
    <<Delim, W("BEGIN"), SP>> \o type \o <<Delim, NL>>
    \o (IF bytes = NoBytes THEN <<>> ELSE <<B64(bytes), NL>>)
    \o <<Delim, W("END"), SP>> \o type \o <<Delim, NL>>

----------------------------------------------------------------------------
(* crypto/x509, crypto/sha256, encoding/hex *)

PubKey(type, n, x, y) == [type |-> type, N |-> n, X |-> x, Y |-> y]
NilKey == PubKey("nil", Zero, Zero, Zero)
X509(raw, pub) == [Raw |-> raw, PublicKey |-> pub]
NilX509 == X509(NoBytes, NilKey)

KeyType(alg) ==
    CASE alg = "RSA" -> "rsa"
      [] alg = "EC" -> "ecdsa"
      [] OTHER -> "other"

Parsed(val, err) == [val |-> val, err |-> err]

\* x509.ParseCertificate
ParseCertificate(bytes) ==
    IF bytes.asn = "x509"
    THEN Parsed(X509(bytes, PubKey(KeyType(bytes.alg), bytes.n, bytes.x, bytes.y)), NoError)
    ELSE Parsed(NilX509, ErrASN1)

\* x509.ParsePKCS1PrivateKey
ParsePKCS1PrivateKey(bytes) ==
    IF bytes.asn = "pkcs1"
    THEN Parsed(PubKey("rsa", bytes.n, Zero, Zero), NoError)
    ELSE Parsed(NilKey, ErrASN1)

\* x509.ParseECPrivateKey
ParseECPrivateKey(bytes) ==
    IF bytes.asn = "sec1"
    THEN Parsed(PubKey("ecdsa", Zero, bytes.x, bytes.y), NoError)
    ELSE Parsed(NilKey, ErrASN1)

\* x509.ParsePKCS8PrivateKey: RSA, EC, another known algorithm (Ed25519), or
\* an unknown algorithm identifier, which is an error
ParsePKCS8PrivateKey(bytes) ==
    IF bytes.asn = "pkcs8" /\ bytes.alg \in {"RSA", "EC", "ED25519"}
    THEN Parsed(PubKey(KeyType(bytes.alg), bytes.n, bytes.x, bytes.y), NoError)
    ELSE Parsed(NilKey, ErrASN1)

\* x509.MarshalPKCS1PrivateKey
MarshalPKCS1PrivateKey(priv) == KeyPKCS1(priv.N)
\* x509.MarshalECPrivateKey
MarshalECPrivateKey(priv) == KeySEC1(priv.X, priv.Y)

\* x509.Certificate.Verify(x509.VerifyOptions{})
ChainVerify(x509cert) == IF x509cert.Raw.chain THEN NoError ELSE ErrX509Verify

\* an Id string: empty, or the hex form of the SHA-256 of a DER value
IdString(of, case) == [of |-> of, case |-> case]
EmptyId == IdString(NoBytes, "empty")
\* sha256.Sum256: collision free
Sha256Sum(bytes) == [sum |-> bytes]
\* hex.EncodeToString: lowercase
HexEncodeToString(hash) == IdString(hash.sum, "lower")
\* strings.ToUpper of an Id, a different string of the same digest
UpperHex(id) == IdString(id.of, "upper")

----------------------------------------------------------------------------
(* Certificate and CertificateData *)

Certificate(id, userId, active, cert, key) ==
    [Id |-> id, UserId |-> userId, Active |-> active, Cert |-> cert, Key |-> key]
CertificateData(id, userId, active, cert, key) ==
    [Id |-> id, UserId |-> userId, Active |-> active, Cert |-> cert, Key |-> key]

\* a (*Certificate, error) pair: cert is <<>> for nil, <<c>> for a record
Return(cert, err) == [cert |-> cert, err |-> err]
Fail(err) == Return(<<>>, err)

\* RSAKeyTooSmall with the boundary itself refused
RSAKeyTooSmallAtBoundary(priv) == BitLen(priv.N) <= OptMinimumRSABits

\* ECMismatch that looks at the X coordinate alone
ECMismatchXOnly(priv, pub) == CmpNonZero(priv.X, pub.X)

\* Certificate.Verify: the minimum key size check of an RSA key
RSAKeyTooSmall(priv) == BitLen(priv.N) < OptMinimumRSABits
\* Certificate.Verify: the minimum key size check of an EC key
ECKeyTooSmall(priv) ==
    BitLen(priv.X) < OptMinimumECBits \/ BitLen(priv.Y) < OptMinimumECBits
\* Certificate.Verify: the modulus of the key against the certificate's
RSAMismatch(priv, pub) == CmpNonZero(priv.N, pub.N)
\* Certificate.Verify: the point of the key against the certificate's
ECMismatch(priv, pub) == CmpNonZero(priv.X, pub.X) \/ CmpNonZero(priv.Y, pub.Y)

\* Certificate.Verify: the switch on the key's dynamic type
VerifyKey(cert) ==
    LET priv == cert.Key
        pub == cert.Cert.PublicKey
    IN
    CASE priv.type = "rsa" ->
           IF pub.type # "rsa" THEN ErrInvalidPrivateKey
           ELSE IF RSAMismatch(priv, pub) THEN ErrInvalidPrivateKey
           ELSE IF RSAKeyTooSmall(priv) THEN ErrKeyTooSmall
           ELSE NoError
      [] priv.type = "ecdsa" ->
           IF pub.type # "ecdsa" THEN ErrInvalidPrivateKey
           ELSE IF ECMismatch(priv, pub) THEN ErrInvalidPrivateKey
           ELSE IF ECKeyTooSmall(priv) THEN ErrKeyTooSmall
           ELSE NoError
      [] OTHER -> ErrInvalidPrivateKey

\* VerifyId that compares the hex digits without regard to case
VerifyIdAnyCase(cert) ==
    IF cert.Id.of # cert.Cert.Raw \/ cert.Id.case \notin {"lower", "upper"}
    THEN ErrInvalidCertificateId
    ELSE NoError

\* Certificate.Verify: the Id against the hash of the certificate
VerifyId(cert) ==
    IF cert.Id # HexEncodeToString(Sha256Sum(cert.Cert.Raw))
    THEN ErrInvalidCertificateId
    ELSE NoError

\* Verify that verifies the chain whatever the option says
VerifyChainAlways(cert, optVerify) ==
    IF ChainVerify(cert.Cert) # NoError THEN ChainVerify(cert.Cert)
    ELSE IF VerifyId(cert) # NoError THEN VerifyId(cert)
    ELSE VerifyKey(cert)

\* Verify with the key checked before the Id
VerifyKeyBeforeId(cert, optVerify) ==
    IF optVerify /\ ChainVerify(cert.Cert) # NoError THEN ChainVerify(cert.Cert)
    ELSE IF VerifyKey(cert) # NoError THEN VerifyKey(cert)
    ELSE VerifyId(cert)

\* Certificate.Verify, given the option it reads
Verify(cert, optVerify) ==
    IF optVerify /\ ChainVerify(cert.Cert) # NoError THEN ChainVerify(cert.Cert)
    ELSE IF VerifyId(cert) # NoError THEN VerifyId(cert)
    ELSE VerifyKey(cert)

\* ParseKey that takes every block for PKCS8
ParseKeyAlwaysPKCS8(keyPEMBlock) == ParsePKCS8PrivateKey(keyPEMBlock.Bytes)

\* NewCertificateFromData: the key decoder, dispatching on the block type
ParseKey(keyPEMBlock) ==
    IF keyPEMBlock.Type = TypeRSA THEN ParsePKCS1PrivateKey(keyPEMBlock.Bytes)
    ELSE IF keyPEMBlock.Type = TypeEC THEN ParseECPrivateKey(keyPEMBlock.Bytes)
    ELSE ParsePKCS8PrivateKey(keyPEMBlock.Bytes)

\* KeyTypeError without the DSA case
KeyTypeErrorNoDSA(type) ==
    IF type # TypeRSA /\ type # TypeEC /\ type # TypePKCS8 THEN ErrMissingPrivateKey
    ELSE NoError

\* NewCertificateFromData: the block types that are refused before any parsing
KeyTypeError(type) ==
    IF type = TypeDSA THEN ErrDSANotSupported
    ELSE IF type # TypeRSA /\ type # TypeEC /\ type # TypePKCS8 THEN ErrMissingPrivateKey
    ELSE NoError

\* NewCertificateFromData: the Id of the record, derived when none is given
DeriveId(id, certPEMBlock) ==
    IF id = EmptyId THEN HexEncodeToString(Sha256Sum(certPEMBlock.Bytes)) ELSE id

\* NewCertificateFromData that decodes the key field before the cert field
NewCertificateFromDataKeyFirst(data, optVerify) ==
    LET certPEMBlockBytes == PEMBlockNormalize(data.Cert)
        certPEMBlock == PemDecode(certPEMBlockBytes.bytes)
        x509cert == ParseCertificate(certPEMBlock.Bytes)
        keyPEMBlockBytes == PEMBlockNormalize(data.Key)
        keyPEMBlock == PemDecode(keyPEMBlockBytes.bytes)
        key == ParseKey(keyPEMBlock)
        cert == Certificate(DeriveId(data.Id, certPEMBlock), data.UserId,
                            data.Active, x509cert.val, key.val)
    IN
    IF keyPEMBlockBytes.err # NoError THEN Fail(keyPEMBlockBytes.err)
    ELSE IF ~keyPEMBlock.ok THEN Fail(ErrMissingPrivateKey)
    ELSE IF KeyTypeError(keyPEMBlock.Type) # NoError
         THEN Fail(KeyTypeError(keyPEMBlock.Type))
    ELSE IF key.err # NoError THEN Fail(key.err)
    ELSE IF certPEMBlockBytes.err # NoError THEN Fail(certPEMBlockBytes.err)
    ELSE IF ~certPEMBlock.ok THEN Fail(ErrInvalidCertificatePEM)
    ELSE IF certPEMBlock.Type # TypeCertificate THEN Fail(ErrInvalidCertificatePEM)
    ELSE IF x509cert.err # NoError THEN Fail(x509cert.err)
    ELSE IF Verify(cert, optVerify) # NoError THEN Fail(Verify(cert, optVerify))
    ELSE Return(<<cert>>, NoError)

NewCertificateFromData(data, optVerify) ==
    LET certPEMBlockBytes == PEMBlockNormalize(data.Cert)
        certPEMBlock == PemDecode(certPEMBlockBytes.bytes)
        x509cert == ParseCertificate(certPEMBlock.Bytes)
        keyPEMBlockBytes == PEMBlockNormalize(data.Key)
        keyPEMBlock == PemDecode(keyPEMBlockBytes.bytes)
        key == ParseKey(keyPEMBlock)
        cert == Certificate(DeriveId(data.Id, certPEMBlock), data.UserId,
                            data.Active, x509cert.val, key.val)
    IN
    IF certPEMBlockBytes.err # NoError THEN Fail(certPEMBlockBytes.err)
    ELSE IF ~certPEMBlock.ok THEN Fail(ErrInvalidCertificatePEM)
    ELSE IF certPEMBlock.Type # TypeCertificate THEN Fail(ErrInvalidCertificatePEM)
    ELSE IF x509cert.err # NoError THEN Fail(x509cert.err)
    ELSE IF keyPEMBlockBytes.err # NoError THEN Fail(keyPEMBlockBytes.err)
    ELSE IF ~keyPEMBlock.ok THEN Fail(ErrMissingPrivateKey)
    ELSE IF KeyTypeError(keyPEMBlock.Type) # NoError
         THEN Fail(KeyTypeError(keyPEMBlock.Type))
    ELSE IF key.err # NoError THEN Fail(key.err)
    ELSE IF Verify(cert, optVerify) # NoError THEN Fail(Verify(cert, optVerify))
    ELSE Return(<<cert>>, NoError)

\* Certificate.GetData: the type and bytes of the private key block
KeyBlock(key) ==
    CASE key.type = "rsa" -> Block(TRUE, TypeRSA, MarshalPKCS1PrivateKey(key))
      [] key.type = "ecdsa" -> Block(TRUE, TypeDSA, MarshalECPrivateKey(key))
      [] OTHER -> Block(FALSE, <<W("panic")>>, NoBytes)

\* Certificate.GetData: the certificate block
CertBlock(x509cert) == Block(TRUE, TypeCertificate, x509cert.Raw)

GetData(cert) ==
    CertificateData(cert.Id, cert.UserId, cert.Active,
        PemEncodeToMemory(CertBlock(cert.Cert).Type, CertBlock(cert.Cert).Bytes),
        PemEncodeToMemory(KeyBlock(cert.Key).Type, KeyBlock(cert.Key).Bytes))

\* json.Unmarshal of bytes that are no JSON object
ErrJSON == "json: syntax error"

\* UnmarshalJSON that copies the plain fields before the record is validated
UnmarshalJSONEager(cert, json, optVerify) ==
    IF json = <<>> THEN [cert |-> cert, err |-> ErrJSON]
    ELSE LET newCert == NewCertificateFromData(json[1], optVerify)
             early == [cert EXCEPT !.Id = json[1].Id, !.UserId = json[1].UserId,
                                   !.Active = json[1].Active]
         IN
         IF newCert.err # NoError THEN [cert |-> early, err |-> newCert.err]
         ELSE [cert |-> newCert.cert[1], err |-> NoError]

\* Certificate.UnmarshalJSON: the receiver afterwards and the error returned;
\* json is <<>> when the bytes are no JSON object, <<data>> otherwise
UnmarshalJSON(cert, json, optVerify) ==
    IF json = <<>> THEN [cert |-> cert, err |-> ErrJSON]
    ELSE LET newCert == NewCertificateFromData(json[1], optVerify) IN
         IF newCert.err # NoError THEN [cert |-> cert, err |-> newCert.err]
         ELSE [cert |-> Certificate(newCert.cert[1].Id, newCert.cert[1].UserId,
                                    newCert.cert[1].Active, newCert.cert[1].Cert,
                                    newCert.cert[1].Key),
               err |-> NoError]

----------------------------------------------------------------------------
(* The wire records the codec is run on *)

Tags == 0..MaxTag
RSABits == (OptMinimumRSABits - 1)..(OptMinimumRSABits + BitsAbove)
ECBits == (OptMinimumECBits - 1)..(OptMinimumECBits + BitsAbove)
RSAModuli == {Big(b, r) : b \in RSABits, r \in Tags}
BaseModulus == Big(OptMinimumRSABits, 0)
ECCoords == {Big(b, r) : b \in ECBits, r \in Tags}
BaseCoord == Big(OptMinimumECBits, 0)
\* the points with a base coordinate, and those with both coordinates alike
ECPoints ==
    {p \in ECCoords \X ECCoords : p[1] = BaseCoord \/ p[2] = BaseCoord \/ p[1] = p[2]}

\* every certificate with a trusted chain; the base ones also without
CertDers ==
    {CertRSA(n, TRUE) : n \in RSAModuli}
    \cup {CertEC(p[1], p[2], TRUE) : p \in ECPoints}
    \cup {CertOther(TRUE), CertOther(FALSE),
          CertRSA(BaseModulus, FALSE), CertEC(BaseCoord, BaseCoord, FALSE)}

PKCS1Ders == {KeyPKCS1(n) : n \in RSAModuli}
SEC1Ders == {KeySEC1(p[1], p[2]) : p \in ECPoints}
PKCS8Ders ==
    { KeyPKCS8("RSA", BaseModulus, Zero, Zero),
      KeyPKCS8("EC", Zero, BaseCoord, BaseCoord),
      KeyPKCS8("ED25519", Zero, Zero, Zero),
      KeyPKCS8("UNKNOWN", Zero, Zero, Zero) }

\* a PEM block as it travels in JSON: the newlines of the body are spaces
WirePEM(type, bytes) ==
    <<Delim, W("BEGIN"), SP>> \o type \o <<Delim, SP, B64(bytes), SP, Delim, W("END"), SP>>
    \o type \o <<Delim>>
\* five segments, but the body does not end its last line
Unterminated(type, bytes) ==
    <<Delim, W("BEGIN"), SP>> \o type \o <<Delim, SP, B64(bytes), Delim, W("END"), SP>>
    \o type \o <<Delim>>

\* five segments, but the body is not base64
NotBase64(type) ==
    <<Delim, W("BEGIN"), SP>> \o type \o <<Delim, SP, W("%%%"), SP, Delim, W("END"), SP>>
    \o type \o <<Delim>>

SampleCertDer == CertRSA(BaseModulus, TRUE)
SampleKeyDer == KeyPKCS1(BaseModulus)

MalformedCertTexts ==
    { <<>>,
      WirePEM(TypeCertificate, SampleCertDer) \o WirePEM(TypeCertificate, SampleCertDer),
      Unterminated(TypeCertificate, SampleCertDer),
      NotBase64(TypeCertificate),
      WirePEM(TypeRSA, SampleCertDer),
      WirePEM(TypeCertificate, Garbage) }
CertTexts == {WirePEM(TypeCertificate, d) : d \in CertDers} \cup MalformedCertTexts

MalformedKeyTexts ==
    { <<>>,
      WirePEM(TypeRSA, SampleKeyDer) \o WirePEM(TypeRSA, SampleKeyDer),
      Unterminated(TypeRSA, SampleKeyDer),
      NotBase64(TypeRSA),
      WirePEM(TypeEC, SampleKeyDer),
      WirePEM(TypePKCS8, SampleKeyDer),
      WirePEM(TypeRSA, KeySEC1(BaseCoord, BaseCoord)),
      WirePEM(TypeParams, Garbage),
      WirePEM(TypeRSA, Garbage),
      WirePEM(TypeDSA, Garbage),
      WirePEM(TypeDSA, SampleKeyDer) }
KeyTexts ==
    {WirePEM(TypeRSA, d) : d \in PKCS1Ders}
    \cup {WirePEM(TypeEC, d) : d \in SEC1Ders}
    \cup {WirePEM(TypePKCS8, d) : d \in PKCS8Ders}
    \cup MalformedKeyTexts

\* the DER value a cert text carries, whatever its framing
RECURSIVE PayloadFrom(_, _)
PayloadFrom(text, i) ==
    IF i > Len(text) THEN NoBytes
    ELSE IF text[i].k = "base64" THEN text[i].b
    ELSE PayloadFrom(text, i + 1)
Payload(text) == PayloadFrom(text, 1)

\* the Ids a client may send with a cert text: none, the right one, the right
\* one in upper case, and the Id of another certificate
IdsFor(text) ==
    { EmptyId,
      HexEncodeToString(Sha256Sum(Payload(text))),
      UpperHex(HexEncodeToString(Sha256Sum(Payload(text)))),
      HexEncodeToString(Sha256Sum(CertOther(FALSE))) }

\* the wire records with a cert field of certTexts and a key field of keyTexts
WireRecords(certTexts, keyTexts) ==
    UNION {{CertificateData(id, "1", active, ct, kt) :
                id \in IdsFor(ct), active \in BOOLEAN, kt \in keyTexts} :
           ct \in certTexts}

\* the receivers UnmarshalJSON is called on: new(Certificate), and a record
\* that an earlier call filled in
ZeroCertificate == Certificate(EmptyId, "", FALSE, NilX509, NilKey)
FilledCertificate ==
    Certificate(HexEncodeToString(Sha256Sum(SampleCertDer)), "7", TRUE,
                ParseCertificate(SampleCertDer).val, ParsePKCS1PrivateKey(SampleKeyDer).val)
Receivers == {ZeroCertificate, FilledCertificate}

----------------------------------------------------------------------------
(* The codec run on one wire record *)

NoReturn == Return(<<>>, "unset")
NoData == CertificateData(EmptyId, "", FALSE, <<>>, <<>>)
NoUser == [Id |-> "", Name |-> "", Email |-> "", Certs |-> <<>>]
EmptyDB == [users |-> {}, certs |-> <<>>, serial |-> 0]

\* no call made yet, no transaction, no reader
NoCall == [op |-> "none", args |-> <<>>, err |-> "unset"]
NoTx == [pc |-> "idle", user |-> NoUser, i |-> 1, users |-> {}, certs |-> <<>>,
         err |-> "unset"]
NoReader == [pc |-> "idle", userid |-> "", user |-> NoUser, err |-> "unset"]
\* the PATCH requests that may run side by side, none of them started
Patchers == {1, 2}
NoPatch == [p \in Patchers |-> [pc |-> "idle", body |-> NoUser, user |-> NoUser]]
NoDel == [pc |-> "idle", userid |-> "", certs |-> {}, users |-> {}, affected |-> 0,
          err |-> "unset"]
StoreIdle ==
    /\ call = NoCall
    /\ dbBefore = EmptyDB
    /\ tx = NoTx
    /\ reader = NoReader
    /\ patch = NoPatch
    /\ del = NoDel

ServerIdle ==
    /\ StoreIdle
    /\ user = NoUser
    /\ userBefore = NoUser
    /\ validateErr = "unset"
    /\ db = EmptyDB
    /\ dbWrites = <<>>
    /\ response = <<>>
    /\ handler = "none"

InitCodec ==
    /\ OptVerifyCertificate \in BOOLEAN
    /\ certData \in WireRecords(CertTexts, KeyTexts)
    /\ pc = "start"
    /\ result = NoReturn
    /\ encoded = NoData
    /\ result2 = NoReturn
    /\ receiver = ZeroCertificate
    /\ receiverBefore = ZeroCertificate
    /\ unmarshalErr = "unset"
    /\ ServerIdle

\* cert, err := NewCertificateFromData(certData)
Decode ==
    /\ pc = "start"
    /\ result' = NewCertificateFromData(certData, OptVerifyCertificate)
    /\ pc' = "decoded"
    /\ UNCHANGED <<OptVerifyCertificate, certData, encoded, result2, receiver,
                   receiverBefore, unmarshalErr, serverVars>>

\* data := cert.GetData()
Encode ==
    /\ pc = "decoded"
    /\ result.err = NoError
    /\ encoded' = GetData(result.cert[1])
    /\ pc' = "encoded"
    /\ UNCHANGED <<OptVerifyCertificate, certData, result, result2, receiver,
                   receiverBefore, unmarshalErr, serverVars>>

\* cert2, err := NewCertificateFromData(data)
Redecode ==
    /\ pc = "encoded"
    /\ result2' = NewCertificateFromData(encoded, OptVerifyCertificate)
    /\ pc' = "redecoded"
    /\ UNCHANGED <<OptVerifyCertificate, certData, result, encoded, receiver,
                   receiverBefore, unmarshalErr, serverVars>>

\* err := json.Unmarshal(bytes, cert), which calls cert.UnmarshalJSON(bytes)
Unmarshal ==
    /\ pc = "start"
    /\ \E rcv \in Receivers, json \in {<<>>, <<certData>>} :
         LET out == UnmarshalJSON(rcv, json, OptVerifyCertificate) IN
         /\ receiverBefore' = rcv
         /\ receiver' = out.cert
         /\ unmarshalErr' = out.err
    /\ pc' = "unmarshalled"
    /\ UNCHANGED <<OptVerifyCertificate, certData, result, encoded, result2, serverVars>>

NextCodec == Decode \/ Encode \/ Redecode \/ Unmarshal

SpecCodec == InitCodec /\ [][NextCodec]_vars

----------------------------------------------------------------------------
(* User *)

ErrInvalidUserId == "ErrInvalidUserId"
ErrInvalidUserName == "ErrInvalidUserName"
ErrInvalidUserEmail == "ErrInvalidUserEmail"

User(id, name, email, certs) == [Id |-> id, Name |-> name, Email |-> email, Certs |-> certs]

\* the longest name the validator accepts, and a name one rune longer
MaxNameRunes == 746
LongestName == "Hubert Blaine Wolfeschlegelsteinhausenbergerdorff ..."
TooLongName == "Hubert Blaine Wolfeschlegelsteinhausenbergerdorff ...!"
\* utf8.RuneCountInString
RuneCountInString(name) ==
    CASE name = "" -> 0
      [] name = "Al" -> 2
      [] name = "Bo" -> 2
      [] name = LongestName -> MaxNameRunes
      [] name = TooLongName -> MaxNameRunes + 1
\* RegExpEmail.MatchString
RegExpEmailMatch(email) == email \in {"al@example.org", "bo@example.org"}
\* strconv.Atoi(id) succeeds and gives a positive number
IsPositiveInt(id) == id \in {ToString(n) : n \in 1..9}

\* NormalizeCerts that writes every normalized entry into the first slot
RECURSIVE NormalizeCertsIntoFirst(_, _, _)
NormalizeCertsIntoFirst(certs, i, optVerify) ==
    IF i > Len(certs) THEN [certs |-> certs, err |-> NoError]
    ELSE LET cert == NewCertificateFromData(certs[i], optVerify) IN
         IF cert.err # NoError THEN [certs |-> certs, err |-> cert.err]
         ELSE NormalizeCertsIntoFirst([certs EXCEPT ![1] = GetData(cert.cert[1])], i + 1,
                                      optVerify)

\* User.ValidateNormalize: the loop over u.Certs from index i on
RECURSIVE NormalizeCerts(_, _, _)
NormalizeCerts(certs, i, optVerify) ==
    IF i > Len(certs) THEN [certs |-> certs, err |-> NoError]
    ELSE LET cert == NewCertificateFromData(certs[i], optVerify) IN
         IF cert.err # NoError THEN [certs |-> certs, err |-> cert.err]
         ELSE NormalizeCerts([certs EXCEPT ![i] = GetData(cert.cert[1])], i + 1, optVerify)

\* User.ValidateNormalize: the user afterwards and the error returned
ValidateNormalize(u, optVerify) ==
    IF u.Id # "" /\ ~IsPositiveInt(u.Id) THEN [user |-> u, err |-> ErrInvalidUserId]
    ELSE IF RuneCountInString(u.Name) > MaxNameRunes
         THEN [user |-> u, err |-> ErrInvalidUserName]
    ELSE IF ~RegExpEmailMatch(u.Email) THEN [user |-> u, err |-> ErrInvalidUserEmail]
    ELSE LET out == NormalizeCerts(u.Certs, 1, optVerify) IN
         [user |-> [u EXCEPT !.Certs = out.certs], err |-> out.err]

----------------------------------------------------------------------------
(* The users ValidateNormalize is run on *)

GoodRSA ==
    CertificateData(EmptyId, "1", TRUE, WirePEM(TypeCertificate, SampleCertDer),
                    WirePEM(TypeRSA, SampleKeyDer))
GoodEC ==
    CertificateData(EmptyId, "1", FALSE,
                    WirePEM(TypeCertificate, CertEC(BaseCoord, BaseCoord, TRUE)),
                    WirePEM(TypeEC, KeySEC1(BaseCoord, BaseCoord)))
\* a certificate with the key of another
BadKey ==
    CertificateData(EmptyId, "1", TRUE, WirePEM(TypeCertificate, SampleCertDer),
                    WirePEM(TypeRSA, KeyPKCS1(Big(OptMinimumRSABits, 1))))
\* two PEM blocks in the cert field
BadPEM ==
    CertificateData(EmptyId, "1", TRUE,
                    WirePEM(TypeCertificate, SampleCertDer)
                        \o WirePEM(TypeCertificate, SampleCertDer),
                    WirePEM(TypeRSA, SampleKeyDer))
SampleCerts == {GoodRSA, GoodEC, BadKey, BadPEM}

\* the sequences over S of length at most n
RECURSIVE SeqsUpTo(_, _)
SeqsUpTo(S, n) ==
    IF n = 0 THEN {<<>>}
    ELSE LET shorter == SeqsUpTo(S, n - 1) IN
         shorter \cup {Append(q, x) : q \in shorter, x \in S}

UserInputs ==
    {User(id, name, email, certs) :
        id \in {"", "1", "x"},
        name \in {"", "Al", LongestName, TooLongName},
        email \in {"al@example.org", "not-an-email"},
        certs \in SeqsUpTo(SampleCerts, MaxCerts)}

CodecIdle ==
    /\ certData = NoData
    /\ pc = "idle"
    /\ result = NoReturn
    /\ encoded = NoData
    /\ result2 = NoReturn
    /\ receiver = ZeroCertificate
    /\ receiverBefore = ZeroCertificate
    /\ unmarshalErr = "unset"

InitUser ==
    /\ OptVerifyCertificate \in BOOLEAN
    /\ CodecIdle
    /\ StoreIdle
    /\ user \in UserInputs
    /\ userBefore = user
    /\ validateErr = "unset"
    /\ db = EmptyDB
    /\ dbWrites = <<>>
    /\ response = <<>>
    /\ handler = "none"

\* err := user.ValidateNormalize()
Validate ==
    /\ handler = "none"
    /\ validateErr = "unset"
    /\ LET out == ValidateNormalize(user, OptVerifyCertificate) IN
         /\ user' = out.user
         /\ validateErr' = out.err
    /\ handler' = "ValidateNormalize"
    /\ UNCHANGED <<OptVerifyCertificate, codecVars, userBefore, db, dbWrites, response,
                   storeVars>>

NextUser == Validate

SpecUser == InitUser /\ [][NextUser]_vars

----------------------------------------------------------------------------
(* The store (database.go) *)

\* at most MaxUsers rows are ever inserted into certstore_user
MaxUsers == 1

UserRow(id, name, email) == [id |-> id, name |-> name, email |-> email]
CertRow(id, userid, active, cert, key) ==
    [id |-> id, userid |-> userid, active |-> active, cert |-> cert, key |-> key]

\* a CHAR(64) column pads what it stores: the empty Id is read back as blanks
BlankId == IdString(NoBytes, "blank")
Char64(id) == IF id = EmptyId THEN BlankId ELSE id

ErrNotFound == "ErrNotFound"
ErrDuplicateKey == "pq: duplicate key value violates unique constraint"

\* SQLCreateCert on a table without a key: the row is added whatever it holds
InsertCertNoKey(rows, data) ==
    [rows |-> Append(rows, CertRow(Char64(data.Id), data.UserId, data.Active, data.Cert,
                                   data.Key)),
     err |-> NoError]

\* SQLCreateCert under PRIMARY KEY(id, userid): the rows after the insert
InsertCert(rows, data) ==
    IF \E i \in 1..Len(rows) :
          rows[i].id = Char64(data.Id) /\ rows[i].userid = data.UserId
    THEN [rows |-> rows, err |-> ErrDuplicateKey]
    ELSE [rows |-> Append(rows, CertRow(Char64(data.Id), data.UserId, data.Active,
                                         data.Cert, data.Key)),
          err |-> NoError]

\* DatabaseCreateUser: the loop that inserts user.Certs from index i on
RECURSIVE InsertCerts(_, _, _, _)
InsertCerts(rows, certs, i, userid) ==
    IF i > Len(certs) THEN [rows |-> rows, certs |-> certs, err |-> NoError]
    ELSE LET owned == [certs EXCEPT ![i].UserId = userid]
             ins == InsertCert(rows, owned[i])
         IN IF ins.err # NoError THEN [rows |-> rows, certs |-> owned, err |-> ins.err]
            ELSE InsertCerts(ins.rows, owned, i + 1, userid)

\* DatabaseCreateUser: the store and the user afterwards, and the error
DatabaseCreateUser(store, u) ==
    LET id == ToString(store.serial + 1)
        taken == [store EXCEPT !.serial = store.serial + 1]
        ins == InsertCerts(store.certs, u.Certs, 1, id)
        stored == [u EXCEPT !.Id = id, !.Certs = ins.certs]
    IN
    IF ins.err # NoError
    THEN \* tx.Rollback(): the rows are gone, the serial is not given back
         [db |-> taken, user |-> stored, err |-> ins.err]
    ELSE [db |-> [taken EXCEPT !.users = store.users \cup {UserRow(id, u.Name, u.Email)},
                               !.certs = ins.rows],
          user |-> stored, err |-> NoError]

\* SQLFetchUserCerts
FetchUserCerts(store, userid) ==
    LET mine == SelectSeq(store.certs, LAMBDA row : row.userid = userid) IN
    [i \in 1..Len(mine) |->
        CertificateData(mine[i].id, mine[i].userid, mine[i].active, mine[i].cert,
                        mine[i].key)]

\* DatabaseReadUser
DatabaseReadUser(store, userid) ==
    IF \E row \in store.users : row.id = userid
    THEN LET row == CHOOSE r \in store.users : r.id = userid IN
         [user |-> User(row.id, row.name, row.email, FetchUserCerts(store, userid)),
          err |-> NoError]
    ELSE [user |-> NoUser, err |-> ErrNotFound]

\* DatabaseUpdateUser that also rewrites the certificate rows of the user
DatabaseUpdateUserAndCerts(store, u) ==
    IF \E row \in store.users : row.id = u.Id
    THEN [db |-> [store EXCEPT
                    !.users = {IF row.id = u.Id THEN UserRow(row.id, u.Name, u.Email)
                               ELSE row : row \in store.users},
                    !.certs = [i \in 1..Len(store.certs) |->
                                  IF store.certs[i].userid = u.Id
                                  THEN [store.certs[i] EXCEPT !.key = <<>>]
                                  ELSE store.certs[i]]],
          err |-> NoError]
    ELSE [db |-> store, err |-> ErrNotFound]

\* DatabaseUpdateUser
DatabaseUpdateUser(store, u) ==
    IF \E row \in store.users : row.id = u.Id
    THEN [db |-> [store EXCEPT !.users =
                     {IF row.id = u.Id THEN UserRow(row.id, u.Name, u.Email) ELSE row :
                         row \in store.users}],
          err |-> NoError]
    ELSE [db |-> store, err |-> ErrNotFound]

\* an Id that is a short text, not a digest
TextId(text) == IdString(NoBytes, text)
\* PostgreSQL reading a text parameter as BOOLEAN: '1' and '0' are accepted
PgBool(text) ==
    CASE text = "1" -> [ok |-> TRUE, val |-> TRUE]
      [] text = "0" -> [ok |-> TRUE, val |-> FALSE]
      [] OTHER -> [ok |-> FALSE, val |-> FALSE]
\* PostgreSQL reading a text parameter as INT: a hex digest, the empty text
\* and a word are refused, decimal digits are accepted
PgInt(id) ==
    IF id.case \in {ToString(n) : n \in 0..9} THEN [ok |-> TRUE, val |-> id.case]
    ELSE [ok |-> FALSE, val |-> ""]
\* the driver's text for a bool parameter
BoolText(active) == TextId(IF active THEN "true" ELSE "false")
ErrPgBool == "pq: invalid input syntax for type boolean"
ErrPgInt == "pq: invalid input syntax for integer"

\* DatabaseDeleteUser that deletes the user row alone
DatabaseDeleteUserOnly(store, userid) ==
    IF \E row \in store.users : row.id = userid
    THEN [db |-> [store EXCEPT !.users = {row \in store.users : row.id # userid}],
          err |-> NoError]
    ELSE [db |-> store, err |-> ErrNotFound]

\* DatabaseDeleteUser: SQLCertDeleteUsers, SQLDeleteUser and the commit; the
\* rows affected by SQLDeleteUser are looked at after the commit
DatabaseDeleteUser(store, userid) ==
    LET after == [store EXCEPT
                    !.certs = SelectSeq(store.certs, LAMBDA row : row.userid # userid),
                    !.users = {row \in store.users : row.id # userid}]
    IN
    IF \E row \in store.users : row.id = userid
    THEN [db |-> after, err |-> NoError]
    ELSE [db |-> after, err |-> ErrNotFound]

\* DatabaseReadCert
DatabaseReadCert(store, userid, certid) ==
    LET found == SelectSeq(store.certs,
                           LAMBDA row : row.userid = userid /\ row.id = Char64(certid))
    IN
    IF Len(found) = 0 THEN [cert |-> <<>>, err |-> ErrNotFound]
    ELSE [cert |-> <<CertificateData(found[1].id, found[1].userid, found[1].active,
                                     found[1].cert, found[1].key)>>,
          err |-> NoError]

\* DatabaseUpdateCertActive: Exec(userid, certid, active) binds userid to $1,
\* certid to $2 and active to $3 of
\* "UPDATE certstore_cert SET active = $1 WHERE userid = $2 AND id = $3"
DatabaseUpdateCertActive(store, userid, certid, active) ==
    LET setActive == PgBool(userid)
        whereUserid == PgInt(certid)
        whereId == Char64(BoolText(active))
        hit(row) == row.userid = whereUserid.val /\ row.id = whereId
        affected == Len(SelectSeq(store.certs, hit))
    IN
    IF ~setActive.ok THEN [db |-> store, err |-> ErrPgBool]
    ELSE IF ~whereUserid.ok THEN [db |-> store, err |-> ErrPgInt]
    ELSE IF affected = 0 THEN [db |-> store, err |-> ErrNotFound]
    ELSE [db |-> [store EXCEPT !.certs =
                     [i \in 1..Len(store.certs) |->
                         IF hit(store.certs[i])
                         THEN [store.certs[i] EXCEPT !.active = setActive.val]
                         ELSE store.certs[i]]],
          err |-> NoError]

ErrForeignKey == "pq: insert or update on table violates foreign key constraint"

\* DatabaseCreateCert on a table whose userid references nothing
DatabaseCreateCertNoReference(store, cert) ==
    LET ins == InsertCert(store.certs, cert) IN
    IF ins.err # NoError THEN [db |-> store, err |-> ins.err]
    ELSE [db |-> [store EXCEPT !.certs = ins.rows], err |-> NoError]

\* DatabaseCreateCert: one SQLCreateCert outside any transaction; the unique
\* index is looked at when the row goes in, "userid INT NOT NULL REFERENCES
\* certstore_user(id)" when the statement ends
DatabaseCreateCert(store, cert) ==
    LET ins == InsertCert(store.certs, cert) IN
    IF ins.err # NoError THEN [db |-> store, err |-> ins.err]
    ELSE IF ~\E row \in store.users : row.id = cert.UserId
    THEN [db |-> store, err |-> ErrForeignKey]
    ELSE [db |-> [store EXCEPT !.certs = ins.rows], err |-> NoError]

\* DatabaseDeleteCert
DatabaseDeleteCert(store, userid, certid) ==
    LET hit(row) == row.userid = userid /\ row.id = Char64(certid)
        affected == Len(SelectSeq(store.certs, hit))
    IN
    IF affected = 0 THEN [db |-> store, err |-> ErrNotFound]
    ELSE [db |-> [store EXCEPT !.certs = SelectSeq(store.certs, LAMBDA row : ~hit(row))],
          err |-> NoError]

----------------------------------------------------------------------------
(* The handlers (main.go) *)

StatusOK == 200
StatusBadRequest == 400
StatusNotFound == 404
StatusInternalServerError == 500

ErrNoIDOnNewUser == "ErrNoIDOnNewUser"
ErrBadPatchID == "ErrBadPatchID"
ErrBadPatchCerts == "ErrBadPatchCerts"

\* HandleError: the status chosen for an error when httpCode is 0
StatusFor(e) ==
    IF e = ErrNotFound THEN StatusNotFound
    ELSE IF e \in {ErrDSANotSupported, ErrInvalidPEMBlock, ErrInvalidCertificatePEM,
                   ErrInvalidCertificateId, ErrInvalidPrivateKey, ErrMissingPrivateKey,
                   ErrKeyTooSmall, ErrInvalidUserId, ErrInvalidUserName,
                   ErrInvalidUserEmail}
         THEN StatusBadRequest
    ELSE StatusInternalServerError

\* what a handler writes to the client
Written(kind, code, err, res) == [kind |-> kind, code |-> code, err |-> err, result |-> res]
\* HandleError: what it writes
HandleError(e, httpCode) ==
    Written("error", IF httpCode = 0 THEN StatusFor(e) ELSE httpCode, e, NoUser)
\* SendResult: what it writes
SendResult(res) == Written("result", StatusOK, NoError, res)

\* a call of a persistence function that writes
Write(op, err) == [op |-> op, err |-> err]

\* GetUserID
GetUserID(userid) == IF IsPositiveInt(userid) THEN NoError ELSE ErrNotFound

\* the outcome of a handler: what it wrote to the client, the store afterwards,
\* the persistence writes it made, its user object, and what ValidateNormalize
\* returned when it was called
Outcome(resp, store, writes, u, before, verr) ==
    [response |-> resp, db |-> store, dbWrites |-> writes, user |-> u,
     userBefore |-> before, validateErr |-> verr]
Rejected(store, e, httpCode, u) ==
    Outcome(<<HandleError(e, httpCode)>>, store, <<>>, u, u, "unset")

\* CreateUserHandler: what follows user.ValidateNormalize()
CreateUserAfterValidate(store, u, valid) ==
    LET early == IF valid.err # NoError THEN <<HandleError(valid.err, 0)>> ELSE <<>>
        created == DatabaseCreateUser(store, valid.user)
        writes == <<Write("DatabaseCreateUser", created.err)>>
    IN
    IF created.err # NoError
    THEN Outcome(early \o <<HandleError(created.err, 0)>>, created.db, writes,
                 created.user, u, valid.err)
    ELSE Outcome(early \o <<SendResult(created.user)>>, created.db, writes,
                 created.user, u, valid.err)

\* CreateUserHandler; body is <<>> when the request body is no JSON object
CreateUserHandler(store, body, optVerify) ==
    IF body = <<>> THEN Rejected(store, ErrJSON, StatusBadRequest, NoUser)
    ELSE LET u == body[1] IN
         IF u.Id # "" THEN Rejected(store, ErrNoIDOnNewUser, StatusBadRequest, u)
         ELSE IF u.Name = "" THEN Rejected(store, ErrInvalidUserName, StatusBadRequest, u)
         ELSE IF u.Email = "" THEN Rejected(store, ErrInvalidUserEmail, StatusBadRequest, u)
         ELSE CreateUserAfterValidate(store, u, ValidateNormalize(u, optVerify))

\* UpdateUserHandler: what follows user.ValidateNormalize()
UpdateUserAfterValidate(store, u, valid) ==
    LET early == IF valid.err # NoError THEN <<HandleError(valid.err, 0)>> ELSE <<>>
        updated == DatabaseUpdateUser(store, valid.user)
        writes == <<Write("DatabaseUpdateUser", updated.err)>>
    IN
    IF updated.err # NoError
    THEN Outcome(early \o <<HandleError(updated.err, 0)>>, updated.db, writes,
                 valid.user, u, valid.err)
    ELSE Outcome(early \o <<SendResult(valid.user)>>, updated.db, writes,
                 valid.user, u, valid.err)

\* ApplyPatch that takes the name and the email of the PATCH as they are
ApplyPatchWhole(u, userPatch) == [u EXCEPT !.Name = userPatch.Name, !.Email = userPatch.Email]

\* UpdateUserHandler: the user read from the store with the PATCH applied
ApplyPatch(u, userPatch) ==
    [u EXCEPT !.Name = IF userPatch.Name # "" THEN userPatch.Name ELSE u.Name,
              !.Email = IF userPatch.Email # "" THEN userPatch.Email ELSE u.Email]

\* UpdateUserHandler
UpdateUserHandler(store, userid, body, optVerify) ==
    IF GetUserID(userid) # NoError THEN Rejected(store, GetUserID(userid), 0, NoUser)
    ELSE IF body = <<>> THEN Rejected(store, ErrJSON, StatusBadRequest, NoUser)
    ELSE LET userPatch == body[1]
             read == DatabaseReadUser(store, userid)
             u == ApplyPatch(read.user, userPatch)
         IN
         IF userPatch.Id # "" THEN Rejected(store, ErrBadPatchID, StatusBadRequest, userPatch)
         ELSE IF Len(userPatch.Certs) # 0
              THEN Rejected(store, ErrBadPatchCerts, StatusBadRequest, userPatch)
         ELSE IF read.err # NoError THEN Rejected(store, read.err, 0, NoUser)
         ELSE UpdateUserAfterValidate(store, u, ValidateNormalize(u, optVerify))

LimitCertsActive == "active"
LimitCertsInactive == "inactive"
ErrSliceBounds == "runtime error: slice bounds out of range"

\* ReadUserHandler: the loop "for i, cert := range user.Certs" from index i on.
\* The range runs over the n elements of the array the slice had when the loop
\* began; user.Certs is the first len elements of that array; a removal
\* append(user.Certs[:i], user.Certs[i+1:]...) moves the elements after i one
\* place down in the array, and panics when i+1 is beyond len(user.Certs)
RECURSIVE FilterCerts(_, _, _, _)
FilterCerts(array, len, i, wanted) ==
    IF i > Len(array) THEN [certs |-> SubSeq(array, 1, len), panic |-> FALSE]
    ELSE IF array[i].Active = wanted THEN FilterCerts(array, len, i + 1, wanted)
    ELSE IF i > len THEN [certs |-> SubSeq(array, 1, len), panic |-> TRUE]
    ELSE FilterCerts([j \in 1..Len(array) |->
                         IF j >= i /\ j < len THEN array[j + 1] ELSE array[j]],
                     len - 1, i + 1, wanted)

\* ReadUserHandler: the certificates left by the show-certs parameter
LimitCerts(certs, limitcerts) ==
    IF limitcerts = LimitCertsActive THEN FilterCerts(certs, Len(certs), 1, TRUE)
    ELSE IF limitcerts = LimitCertsInactive THEN FilterCerts(certs, Len(certs), 1, FALSE)
    ELSE [certs |-> certs, panic |-> FALSE]

\* ReadUserHandler: what it writes and the user it holds; a panic is recovered
\* by net/http, which closes the connection without a response body
ReadUserHandler(store, userid, limitcerts) ==
    LET read == DatabaseReadUser(store, userid)
        limited == LimitCerts(read.user.Certs, limitcerts)
        u == [read.user EXCEPT !.Certs = limited.certs]
    IN
    IF GetUserID(userid) # NoError
    THEN [response |-> <<HandleError(GetUserID(userid), 0)>>, user |-> NoUser]
    ELSE IF read.err # NoError
    THEN [response |-> <<HandleError(read.err, 0)>>, user |-> NoUser]
    ELSE IF limited.panic
    THEN [response |-> <<Written("panic", 0, ErrSliceBounds, NoUser)>>, user |-> u]
    ELSE [response |-> <<Written("user", StatusOK, NoError, u)>>, user |-> u]

----------------------------------------------------------------------------
(* The server: requests handled one after another *)

\* the certificate lists of the requests: none, one good, two good, a good one
\* followed by a bad one, a bad one alone
ServerCertLists ==
    {<<>>, <<GoodRSA>>, <<GoodEC>>, <<GoodRSA, GoodEC>>, <<GoodRSA, BadKey>>, <<BadKey>>}
CreateBodies ==
    { <<>>,
      <<User("5", "Al", "al@example.org", <<>>)>>,
      <<User("", "", "al@example.org", <<>>)>>,
      <<User("", "Al", "", <<>>)>> }
    \cup {<<User("", "Al", email, certs)>> :
            email \in {"al@example.org", "not-an-email"}, certs \in ServerCertLists}
PatchBodies ==
    { <<>>,
      <<User("5", "Bo", "", <<>>)>>,
      <<User("", "Bo", "", <<GoodRSA>>)>> }
    \cup {<<User("", name, email, <<>>)>> :
            name \in {"", "Bo"}, email \in {"", "bo@example.org", "not-an-email"}}
PathUserIds == {ToString(n) : n \in 1..(MaxUsers + 1)} \cup {"x"}

InitServer ==
    /\ OptVerifyCertificate = FALSE
    /\ CodecIdle
    /\ ServerIdle

Serve(name, req, out) ==
    /\ handler' = name
    /\ call' = [op |-> name, args |-> req, err |-> out.response[Len(out.response)].err]
    /\ dbBefore' = db
    /\ response' = out.response
    /\ db' = out.db
    /\ dbWrites' = out.dbWrites
    /\ user' = out.user
    /\ userBefore' = out.userBefore
    /\ validateErr' = out.validateErr
    /\ UNCHANGED <<OptVerifyCertificate, codecVars, tx, reader, patch, del>>

\* POST /user
CreateUser ==
    /\ handler = "none"
    /\ db.serial < MaxUsers
    /\ \E body \in CreateBodies :
         Serve("CreateUserHandler", <<body>>,
               CreateUserHandler(db, body, OptVerifyCertificate))

\* PATCH /user/{user-id}
UpdateUser ==
    /\ handler = "none"
    /\ \E userid \in PathUserIds, body \in PatchBodies :
         Serve("UpdateUserHandler", <<userid, body>>,
               UpdateUserHandler(db, userid, body, OptVerifyCertificate))

\* the handler has returned: its locals are gone, the store stays
HandlerReturns ==
    /\ handler # "none"
    /\ handler' = "none"
    /\ response' = <<>>
    /\ dbWrites' = <<>>
    /\ user' = NoUser
    /\ userBefore' = NoUser
    /\ validateErr' = "unset"
    /\ call' = NoCall
    /\ dbBefore' = EmptyDB
    /\ UNCHANGED <<OptVerifyCertificate, codecVars, db, tx, reader, patch, del>>

NextServer == CreateUser \/ UpdateUser \/ HandlerReturns

SpecServer == InitServer /\ [][NextServer]_vars

----------------------------------------------------------------------------
(* The persistence functions called one after another *)

\* what the create handler hands to the store: accepted certificates in
\* their normalized form
NormRSA == GetData(NewCertificateFromData(GoodRSA, FALSE).cert[1])
NormEC == GetData(NewCertificateFromData(GoodEC, FALSE).cert[1])
\* and a certificate it refused but stored all the same, under the Id the
\* client sent
OddCert ==
    CertificateData(TextId("true"), "", FALSE, WirePEM(TypeCertificate, SampleCertDer),
                    WirePEM(TypeRSA, SampleKeyDer))
StoreCertLists == {<<>>, <<NormRSA, NormEC>>, <<OddCert>>}
StoreUserIds == {ToString(n) : n \in 1..(MaxUsers + 1)}
\* the Id of a stored certificate, and a text that is the Id of none
StoreCertIds == {NormEC.Id, TextId("1")}

InitStore ==
    /\ OptVerifyCertificate = FALSE
    /\ CodecIdle
    /\ ServerIdle

\* a persistence function was called and has returned
Called(op, args, out) ==
    /\ call' = [op |-> op, args |-> args, err |-> out.err]
    /\ dbBefore' = db
    /\ db' = out.db
    /\ UNCHANGED <<OptVerifyCertificate, codecVars, user, userBefore, validateErr,
                   dbWrites, response, handler, tx, reader, patch, del>>

StoreCreateUser ==
    /\ handler = "none"
    /\ db.serial < MaxUsers + 1
    /\ \E certs \in StoreCertLists :
         Called("DatabaseCreateUser", <<certs>>,
                DatabaseCreateUser(db, User("", "Al", "al@example.org", certs)))

StoreUpdateUser ==
    /\ handler = "none"
    /\ \E userid \in StoreUserIds :
         LET read == DatabaseReadUser(db, userid)
             u == [read.user EXCEPT !.Id = userid, !.Name = "Bo",
                                    !.Email = "bo@example.org"]
         IN Called("DatabaseUpdateUser", <<userid>>, DatabaseUpdateUser(db, u))

StoreUpdateCertActive ==
    /\ handler = "none"
    /\ \E userid \in StoreUserIds, certid \in StoreCertIds, active \in BOOLEAN :
         Called("DatabaseUpdateCertActive", <<userid, certid, active>>,
                DatabaseUpdateCertActive(db, userid, certid, active))

StoreDeleteCert ==
    /\ handler = "none"
    /\ \E userid \in StoreUserIds, certid \in StoreCertIds :
         Called("DatabaseDeleteCert", <<userid, certid>>,
                DatabaseDeleteCert(db, userid, certid))

StoreDeleteUser ==
    /\ handler = "none"
    /\ \E userid \in StoreUserIds :
         Called("DatabaseDeleteUser", <<userid>>, DatabaseDeleteUser(db, userid))

NextStore ==
    \/ StoreCreateUser
    \/ StoreUpdateUser
    \/ StoreUpdateCertActive
    \/ StoreDeleteCert
    \/ StoreDeleteUser

SpecStore == InitStore /\ [][NextStore]_vars

----------------------------------------------------------------------------
(* DatabaseCreateUser statement by statement, beside a DatabaseReadUser *)

\* a statement run outside the transaction: its rows are in the store at once
ExecAutocommit(store, t, urows, crows) ==
    [db |-> [store EXCEPT !.users = @ \cup urows, !.certs = @ \o crows], tx |-> t]

\* a statement of tx.NamedStmt: its rows stay with the transaction until the
\* commit
TxExec(store, t, urows, crows) ==
    [db |-> store, tx |-> [t EXCEPT !.users = @ \cup urows, !.certs = @ \o crows]]

\* <<NormRSA, NormRSA>> collides with itself on PRIMARY KEY(id, userid)
TxCertLists == {<<>>, <<NormRSA>>, <<NormRSA, NormEC>>, <<NormRSA, NormRSA>>}
TxUserIds == {ToString(n) : n \in 1..(MaxUsers + 2)}

InitTx ==
    /\ OptVerifyCertificate = FALSE
    /\ CodecIdle
    /\ ServerIdle

\* tx, err := db.Beginx()
CreateBegin ==
    /\ tx.pc \in {"idle", "done"}
    /\ db.serial < MaxUsers + 1
    /\ \E certs \in TxCertLists :
         tx' = [NoTx EXCEPT !.pc = "begun", !.user = User("", "Al", "al@example.org", certs)]
    /\ UNCHANGED <<OptVerifyCertificate, codecVars, user, userBefore, validateErr, db,
                   dbWrites, response, handler, call, dbBefore, reader, patch, del>>

\* err = createUserStmt.Get(&user.Id, user)
CreateInsertUser ==
    /\ tx.pc = "begun"
    /\ LET id == ToString(db.serial + 1)
           taken == [db EXCEPT !.serial = db.serial + 1]
           out == TxExec(taken, [tx EXCEPT !.pc = "certs", !.user.Id = id],
                         {UserRow(id, tx.user.Name, tx.user.Email)}, <<>>)
       IN /\ db' = out.db
          /\ tx' = out.tx
    /\ UNCHANGED <<OptVerifyCertificate, codecVars, user, userBefore, validateErr,
                   dbWrites, response, handler, call, dbBefore, reader, patch, del>>

\* one turn of the loop: certData.UserId = user.Id; createCertStmt.Exec(*certData),
\* and tx.Rollback() when it fails
CreateInsertCert ==
    /\ tx.pc = "certs"
    /\ tx.i <= Len(tx.user.Certs)
    /\ LET owned == [tx.user.Certs[tx.i] EXCEPT !.UserId = tx.user.Id]
           ins == InsertCert(db.certs \o tx.certs, owned)
           out == TxExec(db, [tx EXCEPT !.i = tx.i + 1, !.user.Certs[tx.i] = owned],
                         {}, <<ins.rows[Len(ins.rows)]>>)
       IN IF ins.err # NoError
          THEN /\ tx' = [tx EXCEPT !.pc = "done", !.err = ins.err, !.users = {},
                                   !.certs = <<>>, !.user.Certs[tx.i] = owned]
               /\ db' = db
          ELSE /\ tx' = out.tx
               /\ db' = out.db
    /\ UNCHANGED <<OptVerifyCertificate, codecVars, user, userBefore, validateErr,
                   dbWrites, response, handler, call, dbBefore, reader, patch, del>>

\* err = tx.Commit()
CreateCommit ==
    /\ tx.pc = "certs"
    /\ tx.i > Len(tx.user.Certs)
    /\ db' = [db EXCEPT !.users = @ \cup tx.users, !.certs = @ \o tx.certs]
    /\ tx' = [tx EXCEPT !.pc = "done", !.err = NoError, !.users = {}, !.certs = <<>>]
    /\ UNCHANGED <<OptVerifyCertificate, codecVars, user, userBefore, validateErr,
                   dbWrites, response, handler, call, dbBefore, reader, patch, del>>

\* DatabaseReadUser: err := QueryReadUser.Get(user, userid)
ReadGetUser ==
    /\ reader.pc \in {"idle", "done"}
    /\ \E userid \in TxUserIds :
         IF \E row \in db.users : row.id = userid
         THEN LET row == CHOOSE r \in db.users : r.id = userid IN
              reader' = [pc |-> "fetch", userid |-> userid,
                         user |-> User(row.id, row.name, row.email, <<>>), err |-> "unset"]
         ELSE reader' = [pc |-> "done", userid |-> userid, user |-> NoUser,
                         err |-> ErrNotFound]
    /\ UNCHANGED <<OptVerifyCertificate, codecVars, user, userBefore, validateErr, db,
                   dbWrites, response, handler, call, dbBefore, tx, patch, del>>

\* DatabaseReadUser: err = QueryFetchUserCerts.Select(&user.Certs, userid)
ReadFetchCerts ==
    /\ reader.pc = "fetch"
    /\ reader' = [reader EXCEPT !.pc = "done", !.err = NoError,
                                !.user.Certs = FetchUserCerts(db, reader.userid)]
    /\ UNCHANGED <<OptVerifyCertificate, codecVars, user, userBefore, validateErr, db,
                   dbWrites, response, handler, call, dbBefore, tx, patch, del>>

NextTx ==
    \/ CreateBegin
    \/ CreateInsertUser
    \/ CreateInsertCert
    \/ CreateCommit
    \/ ReadGetUser
    \/ ReadFetchCerts

SpecTx == InitTx /\ [][NextTx]_vars

----------------------------------------------------------------------------
(* HandleError called with each error and each httpCode *)

\* the errors a handler can hold when it calls HandleError
HandledErrors ==
    { ErrNotFound, ErrDSANotSupported, ErrInvalidPEMBlock, ErrInvalidCertificatePEM,
      ErrInvalidCertificateId, ErrInvalidPrivateKey, ErrMissingPrivateKey, ErrKeyTooSmall,
      ErrInvalidUserId, ErrInvalidUserName, ErrInvalidUserEmail, ErrX509Verify, ErrASN1,
      ErrJSON, ErrDuplicateKey, ErrNoIDOnNewUser, ErrBadPatchID, ErrBadPatchCerts }
\* the httpCode arguments: 0 for "choose one", or a status
HttpCodes ==
    {0, StatusOK, StatusBadRequest, StatusNotFound, StatusInternalServerError}

InitStatus ==
    /\ OptVerifyCertificate \in BOOLEAN
    /\ CodecIdle
    /\ user = NoUser
    /\ userBefore = NoUser
    /\ validateErr = "unset"
    /\ db = EmptyDB
    /\ dbWrites = <<>>
    /\ response = <<>>
    /\ handler = "none"
    /\ \E e \in HandledErrors, httpCode \in HttpCodes :
         call = [op |-> "HandleError", args |-> <<httpCode>>, err |-> e]
    /\ dbBefore = EmptyDB
    /\ tx = NoTx
    /\ reader = NoReader
    /\ patch = NoPatch
    /\ del = NoDel

\* HandleError(w, r, e, httpCode)
Respond ==
    /\ handler = "none"
    /\ call.op = "HandleError"
    /\ response' = <<HandleError(call.err, call.args[1])>>
    /\ handler' = "HandleError"
    /\ UNCHANGED <<OptVerifyCertificate, codecVars, user, userBefore, validateErr, db,
                   dbWrites, storeVars>>

NextStatus == Respond

SpecStatus == InitStatus /\ [][NextStatus]_vars

----------------------------------------------------------------------------
(* GET /user/{user-id} on stores of users with certificates *)

\* a User is read back with at most MaxStored certificates
MaxStored == 3

\* the r-th certificate of the stock, as the create handler hands it to the
\* store: accepted and in normalized form
StockCert(r) ==
    GetData(NewCertificateFromData(
                CertificateData(EmptyId, "", TRUE,
                    WirePEM(TypeCertificate, CertRSA(Big(OptMinimumRSABits, r), TRUE)),
                    WirePEM(TypeRSA, KeyPKCS1(Big(OptMinimumRSABits, r)))),
                FALSE).cert[1])
\* the lists of the first n stock certificates, each active or not
StockLists ==
    UNION {{[i \in 1..n |-> [StockCert(i) EXCEPT !.Active = flags[i]]] :
               flags \in [1..n -> BOOLEAN]} : n \in 0..MaxStored}
ShowCerts == {"", LimitCertsActive, LimitCertsInactive, "all"}

InitRead ==
    /\ OptVerifyCertificate = FALSE
    /\ CodecIdle
    /\ ServerIdle

\* the first user is created, with a list of certificates
ReadSeedUser ==
    /\ handler = "none"
    /\ db.users = {}
    /\ \E certs \in StockLists :
         Called("DatabaseCreateUser", <<certs>>,
                DatabaseCreateUser(db, User("", "Al", "al@example.org", certs)))

\* GET /user/{user-id}?show-certs=...
ReadUser ==
    /\ handler = "none"
    /\ \E userid \in PathUserIds, limitcerts \in ShowCerts :
         LET out == ReadUserHandler(db, userid, limitcerts) IN
         /\ handler' = "ReadUserHandler"
         /\ response' = out.response
         /\ user' = out.user
         /\ call' = [op |-> "ReadUserHandler", args |-> <<userid, limitcerts>>,
                     err |-> out.response[1].err]
    /\ UNCHANGED <<OptVerifyCertificate, codecVars, userBefore, validateErr, db, dbWrites,
                   dbBefore, tx, reader, patch, del>>

NextRead == ReadSeedUser \/ ReadUser \/ HandlerReturns

SpecRead == InitRead /\ [][NextRead]_vars

----------------------------------------------------------------------------
(* PATCH /user/1 handled by two goroutines side by side *)

\* patches of the name, of the email, of both and of neither
SidePatches ==
    {User("", name, email, <<>>) : name \in {"", "Bo"}, email \in {"", "bo@example.org"}}
PatchedUserId == "1"

InitPatch ==
    /\ OptVerifyCertificate = FALSE
    /\ CodecIdle
    /\ ServerIdle

\* the user is created before the PATCH requests arrive
PatchSeedUser ==
    /\ handler = "none"
    /\ db.users = {}
    /\ \A p \in Patchers : patch[p].pc = "idle"
    /\ \E certs \in {<<>>, <<NormRSA>>} :
         db' = DatabaseCreateUser(db, User("", "Al", "al@example.org", certs)).db
    /\ UNCHANGED <<OptVerifyCertificate, codecVars, user, userBefore, validateErr,
                   dbWrites, response, handler, storeVars>>

\* UpdateUserHandler up to user.ValidateNormalize(): the body is decoded and
\* checked, the user is read and the PATCH is applied to the copy read
PatchRead(p) ==
    /\ patch[p].pc = "idle"
    /\ \E body \in SidePatches :
         LET read == DatabaseReadUser(db, PatchedUserId)
             valid == ValidateNormalize(ApplyPatch(read.user, body), OptVerifyCertificate)
         IN
         IF read.err # NoError
         THEN patch' = [patch EXCEPT ![p] = [pc |-> "done", body |-> body, user |-> NoUser]]
         ELSE patch' = [patch EXCEPT ![p] = [pc |-> "write", body |-> body,
                                             user |-> valid.user]]
    /\ UNCHANGED <<OptVerifyCertificate, codecVars, user, userBefore, validateErr, db,
                   dbWrites, response, handler, call, dbBefore, tx, reader, del>>

\* UpdateUserHandler: err = DatabaseUpdateUser(user)
PatchWrite(p) ==
    /\ patch[p].pc = "write"
    /\ db' = DatabaseUpdateUser(db, patch[p].user).db
    /\ patch' = [patch EXCEPT ![p].pc = "done"]
    /\ UNCHANGED <<OptVerifyCertificate, codecVars, user, userBefore, validateErr,
                   dbWrites, response, handler, call, dbBefore, tx, reader, del>>

NextPatch ==
    \/ PatchSeedUser
    \/ \E p \in Patchers : PatchRead(p)
    \/ \E p \in Patchers : PatchWrite(p)

SpecPatch == InitPatch /\ [][NextPatch]_vars

----------------------------------------------------------------------------
(* The persistence functions that insert and delete rows, called one after *)
(* another                                                                 *)

\* <<NormEC, NormEC>> collides with itself on PRIMARY KEY(id, userid)
KeysCertLists == {<<>>, <<NormEC>>, <<NormRSA, NormEC>>, <<NormEC, NormEC>>}
KeysCertIds == {NormRSA.Id, NormEC.Id}

InitKeys ==
    /\ OptVerifyCertificate = FALSE
    /\ CodecIdle
    /\ ServerIdle

KeysCreateUser ==
    /\ handler = "none"
    /\ db.serial < MaxUsers + 1
    /\ \E certs \in KeysCertLists :
         Called("DatabaseCreateUser", <<certs>>,
                DatabaseCreateUser(db, User("", "Al", "al@example.org", certs)))

KeysCreateCert ==
    /\ handler = "none"
    /\ \E userid \in StoreUserIds :
         Called("DatabaseCreateCert", <<userid, NormEC.Id>>,
                DatabaseCreateCert(db, [NormEC EXCEPT !.UserId = userid]))

KeysDeleteCert ==
    /\ handler = "none"
    /\ \E userid \in StoreUserIds, certid \in KeysCertIds :
         Called("DatabaseDeleteCert", <<userid, certid>>,
                DatabaseDeleteCert(db, userid, certid))

KeysDeleteUser ==
    /\ handler = "none"
    /\ \E userid \in StoreUserIds :
         Called("DatabaseDeleteUser", <<userid>>, DatabaseDeleteUser(db, userid))

NextKeys ==
    \/ KeysCreateUser
    \/ KeysCreateCert
    \/ KeysDeleteCert
    \/ KeysDeleteUser

SpecKeys == InitKeys /\ [][NextKeys]_vars

----------------------------------------------------------------------------
(* DatabaseCreateUser and DatabaseDeleteUser statement by statement, beside *)
(* DatabaseCreateCert and DatabaseDeleteCert.  db is what is committed; a   *)
(* transaction keeps the rows it inserted and the rows it deleted to itself *)
(* until its commit, and a statement that needs a row another transaction   *)
(* has deleted waits for that transaction to end.                           *)

ErrStillReferenced == "pq: update or delete on table violates foreign key constraint"

\* a certificate sent with the user id of somebody else
Foreign == [NormEC EXCEPT !.UserId = "9"]
IntegrityCertLists == {<<>>, <<Foreign>>, <<Foreign, NormRSA>>}
IntegrityCertIds == {NormRSA.Id, NormEC.Id}
\* the key of a certificate row
KeyOf(row) == <<row.id, row.userid>>
\* DatabaseDeleteUser has deleted this row and has neither committed nor
\* rolled back
DeletePending == del.pc \in {"user", "commit"}

InitIntegrity ==
    /\ OptVerifyCertificate = FALSE
    /\ CodecIdle
    /\ ServerIdle

\* DatabaseCreateUser: tx, err := db.Beginx()
IntegrityCreateBegin ==
    /\ tx.pc \in {"idle", "done"}
    /\ db.serial < MaxUsers
    /\ \E certs \in IntegrityCertLists :
         tx' = [NoTx EXCEPT !.pc = "begun", !.user = User("", "Al", "al@example.org", certs)]
    /\ UNCHANGED <<OptVerifyCertificate, codecVars, user, userBefore, validateErr, db,
                   dbWrites, response, handler, call, dbBefore, reader, patch, del>>

\* DatabaseDeleteUser: tx, err := db.Beginx()
DeleteBegin ==
    /\ del.pc \in {"idle", "done"}
    /\ \E userid \in StoreUserIds : del' = [NoDel EXCEPT !.pc = "certs", !.userid = userid]
    /\ UNCHANGED <<OptVerifyCertificate, codecVars, user, userBefore, validateErr, db,
                   dbWrites, response, handler, call, dbBefore, tx, reader, patch>>

\* _, err = deleteCertStmt.Exec(userid): the committed rows of the user
DeleteCertRows ==
    /\ del.pc = "certs"
    /\ del' = [del EXCEPT !.pc = "user",
                          !.certs = {KeyOf(db.certs[i]) :
                                        i \in {j \in 1..Len(db.certs) :
                                                  db.certs[j].userid = del.userid}}]
    /\ UNCHANGED <<OptVerifyCertificate, codecVars, user, userBefore, validateErr, db,
                   dbWrites, response, handler, call, dbBefore, tx, reader, patch>>

\* res, err := deleteUserStmt.Exec(userid), and tx.Rollback() when a committed
\* certificate row that this transaction did not delete references the user
DeleteUserRow ==
    /\ del.pc = "user"
    /\ IF \E i \in 1..Len(db.certs) :
             db.certs[i].userid = del.userid /\ KeyOf(db.certs[i]) \notin del.certs
       THEN del' = [del EXCEPT !.pc = "done", !.err = ErrStillReferenced, !.certs = {}]
       ELSE del' = [del EXCEPT !.pc = "commit",
                               !.users = {row \in db.users : row.id = del.userid},
                               !.affected = Cardinality({row \in db.users :
                                                            row.id = del.userid})]
    /\ UNCHANGED <<OptVerifyCertificate, codecVars, user, userBefore, validateErr, db,
                   dbWrites, response, handler, call, dbBefore, tx, reader, patch>>

\* err = tx.Commit(), and the look at res.RowsAffected()
DeleteCommit ==
    /\ del.pc = "commit"
    /\ db' = [db EXCEPT !.users = @ \ del.users,
                        !.certs = SelectSeq(@, LAMBDA row : KeyOf(row) \notin del.certs)]
    /\ del' = [del EXCEPT !.pc = "done", !.certs = {}, !.users = {},
                          !.err = IF del.affected = 0 THEN ErrNotFound ELSE NoError]
    /\ UNCHANGED <<OptVerifyCertificate, codecVars, user, userBefore, validateErr,
                   dbWrites, response, handler, call, dbBefore, tx, reader, patch>>

\* DatabaseCreateCert(cert): it waits while the key it inserts belongs to a
\* row a transaction has inserted or deleted, and while the user row it
\* references is deleted by a transaction
IntegrityCreateCert ==
    /\ handler = "none"
    /\ \E userid \in StoreUserIds :
         LET cert == [NormEC EXCEPT !.UserId = userid] IN
         /\ ~(DeletePending /\ <<Char64(cert.Id), userid>> \in del.certs)
         /\ ~(del.pc = "commit" /\ \E row \in del.users : row.id = userid)
         /\ ~\E i \in 1..Len(tx.certs) : KeyOf(tx.certs[i]) = <<Char64(cert.Id), userid>>
         /\ db' = DatabaseCreateCert(db, cert).db
    /\ UNCHANGED <<OptVerifyCertificate, codecVars, user, userBefore, validateErr,
                   dbWrites, response, handler, storeVars>>

\* DatabaseDeleteCert(userid, certid): it waits while a transaction has
\* deleted the row
IntegrityDeleteCert ==
    /\ handler = "none"
    /\ \E userid \in StoreUserIds, certid \in IntegrityCertIds :
         /\ ~(DeletePending /\ <<Char64(certid), userid>> \in del.certs)
         /\ db' = DatabaseDeleteCert(db, userid, certid).db
    /\ UNCHANGED <<OptVerifyCertificate, codecVars, user, userBefore, validateErr,
                   dbWrites, response, handler, storeVars>>

NextIntegrity ==
    \/ IntegrityCreateBegin
    \/ CreateInsertUser
    \/ CreateInsertCert
    \/ CreateCommit
    \/ DeleteBegin
    \/ DeleteCertRows
    \/ DeleteUserRow
    \/ DeleteCommit
    \/ IntegrityCreateCert
    \/ IntegrityDeleteCert

SpecIntegrity == InitIntegrity /\ [][NextIntegrity]_vars

----------------------------------------------------------------------------
(* What the wire record of a run is, said without the decoder *)

InCert == Payload(certData.Cert)
InKey == Payload(certData.Key)
\* the cert field is one CERTIFICATE block holding a certificate
CertFieldDecodes ==
    certData.Cert = WirePEM(TypeCertificate, InCert) /\ InCert.asn = "x509"
\* the key field is one block of a supported type holding a key of that form
KeyFieldDecodes ==
    \/ certData.Key = WirePEM(TypeRSA, InKey) /\ InKey.asn = "pkcs1"
    \/ certData.Key = WirePEM(TypeEC, InKey) /\ InKey.asn = "sec1"
    \/ certData.Key = WirePEM(TypePKCS8, InKey) /\ InKey.asn = "pkcs8"
       /\ InKey.alg \in {"RSA", "EC", "ED25519"}
FieldsDecode == CertFieldDecodes /\ KeyFieldDecodes
\* the lowercase hex SHA-256 of the certificate's DER bytes
RightId == IdString(InCert, "lower")
ChainPasses == ~OptVerifyCertificate \/ InCert.chain
IdPasses == certData.Id = EmptyId \/ certData.Id = RightId
KeyMatches ==
    /\ InKey.alg \in {"RSA", "EC"}
    /\ InKey.alg = InCert.alg
    /\ InKey.alg = "RSA" => InKey.n = InCert.n
    /\ InKey.alg = "EC" => InKey.x = InCert.x /\ InKey.y = InCert.y
RSATooSmall == InKey.n.bits < OptMinimumRSABits
ECTooSmall == InKey.x.bits < OptMinimumECBits \/ InKey.y.bits < OptMinimumECBits
\* the type on the BEGIN line of a PEM text
Label(text) == SubSeq(Split(text)[2], 3, Len(Split(text)[2]))
\* the number of segments a field splits into on the five-dash delimiter
Segments(text) == Len(Split(text))
\* the field is one well-formed PEM block with a base64 body
HoldsBlock(text) == Segments(text) = 5 /\ text = WirePEM(Label(text), Payload(text))
\* what the validator answers once both fields have decoded and the chain
\* is not looked at
ChecksAfterChain ==
    IF ~IdPasses THEN ErrInvalidCertificateId
    ELSE IF ~KeyMatches THEN ErrInvalidPrivateKey
    ELSE IF (InKey.alg = "RSA" /\ RSATooSmall) \/ (InKey.alg = "EC" /\ ECTooSmall)
         THEN ErrKeyTooSmall
    ELSE NoError

----------------------------------------------------------------------------
(* C1: round trip.  For every wire pair that decodes, decoding the        *)
(* re-encoded record succeeds and yields the same Id, UserId, Active flag, *)
(* key variant and cryptographic values.                                   *)
C1_RoundTrip ==
    pc = "redecoded" =>
        /\ result2.err = NoError
        /\ result2.cert = result.cert

(* C2: content addressing.  A returned record has the lowercase hex        *)
(* SHA-256 of the certificate's DER bytes as its Id; with an empty supplied *)
(* Id the identity check never fails; and when both fields decode, chain   *)
(* verification is off and the supplied Id is non-empty and differs from   *)
(* that value (be it only by letter case), decode fails with               *)
(* ErrInvalidCertificateId.                                                *)
C2_ContentAddressing ==
    pc = "decoded" =>
        /\ result.err = NoError => result.cert[1].Id = RightId
        /\ certData.Id = EmptyId => result.err # ErrInvalidCertificateId
        /\ (FieldsDecode /\ ~OptVerifyCertificate /\ ~IdPasses)
              => result.err = ErrInvalidCertificateId
C2_Witness ==
    /\ pc = "decoded"
    /\ FieldsDecode /\ ~OptVerifyCertificate
    /\ certData.Id = UpperHex(RightId)
    /\ result.err = ErrInvalidCertificateId

(* C3: key/certificate correspondence.  A record is produced only if the   *)
(* key is RSA or EC, of the certificate's public-key algorithm, with the   *)
(* certificate's modulus or both its coordinates; and when the Id check is *)
(* reached and passes and the key does not correspond, decode fails with   *)
(* ErrInvalidPrivateKey.                                                   *)
C3_KeyCorrespondence ==
    pc = "decoded" =>
        /\ result.err = NoError => KeyMatches
        /\ (FieldsDecode /\ ChainPasses /\ IdPasses /\ ~KeyMatches)
              => result.err = ErrInvalidPrivateKey
C3_Witness ==
    /\ pc = "decoded"
    /\ FieldsDecode /\ ChainPasses /\ IdPasses
    /\ InKey.alg = "EC" /\ InCert.alg = "EC"
    /\ InKey.x = InCert.x /\ InKey.y # InCert.y
    /\ result.err = ErrInvalidPrivateKey

C5_DSARejectedWhateverTheCert ==
    (pc = "decoded" /\ certData.Key = WirePEM(TypeDSA, InKey))
        => result.err = ErrDSANotSupported
(* C5, amended: it does so whenever the cert field decodes to a            *)
(* certificate, whatever that certificate's key, chain and supplied Id.    *)
C5_DSARejected ==
    (pc = "decoded" /\ certData.Key = WirePEM(TypeDSA, InKey) /\ CertFieldDecodes)
        => result.err = ErrDSANotSupported
C5_Witness ==
    /\ pc = "decoded"
    /\ certData.Key = WirePEM(TypeDSA, InKey) /\ CertFieldDecodes
    /\ OptVerifyCertificate /\ ~InCert.chain /\ ~IdPasses
    /\ result.err = ErrDSANotSupported

(* C6: GetData labels the private key block by the key's variant, "RSA     *)
(* PRIVATE KEY" for an RSA key and "EC PRIVATE KEY" for an EC key, and the *)
(* certificate block "CERTIFICATE".                                        *)
C6_KeyBlockLabel ==
    pc = "encoded" =>
        /\ Label(encoded.Cert) = TypeCertificate
        /\ result.cert[1].Key.type = "rsa" => Label(encoded.Key) = TypeRSA
        /\ result.cert[1].Key.type = "ecdsa" => Label(encoded.Key) = TypeEC

(* C7: no commit on validation failure.  When User.ValidateNormalize      *)
(* returns an error in CreateUserHandler or UpdateUserHandler, no          *)
(* persistence write is made and the client receives the error response    *)
(* alone.                                                                  *)
C7_NoCommitOnValidationFailure ==
    (handler \in {"CreateUserHandler", "UpdateUserHandler"}
         /\ validateErr # "unset" /\ validateErr # NoError) =>
        /\ dbWrites = <<>>
        /\ Len(response) = 1
        /\ response[1].kind = "error"

(* C8: the cascade is all-or-nothing.  When User.ValidateNormalize returns *)
(* an error, the user's Certs are exactly what they were before the call.  *)
C8_CascadeAllOrNothing ==
    (handler = "ValidateNormalize" /\ validateErr # NoError) =>
        user.Certs = userBefore.Certs

(* C9: validator ordering.  When both fields decode, the error is that of  *)
(* the first failing check among chain verification (when enabled), Id,    *)
(* key correspondence and key size.                                        *)
C9_ValidatorOrder ==
    (pc = "decoded" /\ FieldsDecode) =>
        result.err =
            IF ~ChainPasses THEN ErrX509Verify
            ELSE IF ~IdPasses THEN ErrInvalidCertificateId
            ELSE IF ~KeyMatches THEN ErrInvalidPrivateKey
            ELSE IF (InKey.alg = "RSA" /\ RSATooSmall) \/ (InKey.alg = "EC" /\ ECTooSmall)
                 THEN ErrKeyTooSmall
            ELSE NoError
\* a wrong Id together with a mismatched, undersized key
C9_Witness ==
    /\ pc = "decoded"
    /\ FieldsDecode /\ ChainPasses
    /\ ~IdPasses /\ ~KeyMatches /\ InKey.alg = "RSA" /\ RSATooSmall
    /\ result.err = ErrInvalidCertificateId

(* C10: decode is all-or-nothing.  NewCertificateFromData returns a nil    *)
(* record with every error and a record only with a nil error, and a       *)
(* failed UnmarshalJSON leaves its receiver as it was.                     *)
C10_AllOrNothing ==
    /\ pc = "decoded" => (result.err # NoError <=> result.cert = <<>>)
    /\ (pc = "unmarshalled" /\ unmarshalErr # NoError) => receiver = receiverBefore
C10_Witness ==
    /\ pc = "unmarshalled"
    /\ unmarshalErr = ErrKeyTooSmall
    /\ receiverBefore = FilledCertificate
    /\ receiver = FilledCertificate

(* C11, as claimed: a cert field or a key field that does not split into   *)
(* 5 segments fails with ErrInvalidPEMBlock.                               *)
C11_MalformedEitherField ==
    (pc = "decoded" /\ (Segments(certData.Cert) # 5 \/ Segments(certData.Key) # 5))
        => result.err = ErrInvalidPEMBlock
(* C11, amended: a cert field that does not split into 5 segments fails    *)
(* with ErrInvalidPEMBlock whatever the key field; a key field that does   *)
(* not split into 5 segments fails with ErrInvalidPEMBlock when the cert   *)
(* field decodes to a certificate.                                         *)
C11_MalformedPEM ==
    pc = "decoded" =>
        /\ Segments(certData.Cert) # 5 => result.err = ErrInvalidPEMBlock
        /\ (CertFieldDecodes /\ Segments(certData.Key) # 5)
              => result.err = ErrInvalidPEMBlock
\* two concatenated key blocks after a certificate that decodes
C11_Witness ==
    /\ pc = "decoded"
    /\ CertFieldDecodes
    /\ Segments(certData.Key) = 9
    /\ result.err = ErrInvalidPEMBlock

(* C12: key decoder dispatch.  With a cert field that decodes and a key    *)
(* field of 5 segments, the block type alone selects the branch: an absent *)
(* block or an unknown type fails with ErrMissingPrivateKey, "DSA PRIVATE  *)
(* KEY" with ErrDSANotSupported, "RSA PRIVATE KEY" is parsed as PKCS1,     *)
(* "EC PRIVATE KEY" as SEC1 and "PRIVATE KEY" as PKCS8, bytes of another   *)
(* form being a parse error; a returned record holds an RSA or EC key of   *)
(* the values in the block.                                                *)
C12_KeyDispatch ==
    (pc = "decoded" /\ CertFieldDecodes /\ Segments(certData.Key) = 5) =>
        LET type == Label(certData.Key)
            parsedAs(form) ==
                IF InKey.asn = form
                THEN result.err \notin {ErrASN1, ErrMissingPrivateKey, ErrDSANotSupported}
                ELSE result.err = ErrASN1
        IN
        /\ ~HoldsBlock(certData.Key) => result.err = ErrMissingPrivateKey
        /\ HoldsBlock(certData.Key) =>
              CASE type = TypeDSA -> result.err = ErrDSANotSupported
                [] type = TypeRSA -> parsedAs("pkcs1")
                [] type = TypeEC -> parsedAs("sec1")
                [] type = TypePKCS8 ->
                     IF InKey.alg \in {"RSA", "EC", "ED25519"} THEN parsedAs("pkcs8")
                     ELSE result.err = ErrASN1
                [] OTHER -> result.err = ErrMissingPrivateKey
        /\ result.err = NoError =>
              /\ result.cert[1].Key.type \in {"rsa", "ecdsa"}
              /\ result.cert[1].Key = PubKey(KeyType(InKey.alg), InKey.n, InKey.x, InKey.y)
\* a PKCS8 block resolving to an EC key
C12_Witness ==
    /\ pc = "decoded"
    /\ CertFieldDecodes
    /\ HoldsBlock(certData.Key) /\ Label(certData.Key) = TypePKCS8
    /\ result.err = NoError
    /\ result.cert[1].Key.type = "ecdsa"

(* C18: optional chain verification.  When both fields decode: with        *)
(* OptVerifyCertificate false the outcome is that of the Id, key           *)
(* correspondence and key-size checks, whether or not the chain is         *)
(* trusted; with it true a certificate whose chain is not trusted fails    *)
(* with the verification error whatever the other checks would say.        *)
C18_OptionalChainVerification ==
    (pc = "decoded" /\ FieldsDecode) =>
        /\ ~OptVerifyCertificate => result.err = ChecksAfterChain
        /\ (OptVerifyCertificate /\ ~InCert.chain) => result.err = ErrX509Verify
\* verification off: an untrusted certificate is accepted
C18_Witness ==
    /\ pc = "decoded"
    /\ FieldsDecode
    /\ ~OptVerifyCertificate /\ ~InCert.chain
    /\ result.err = NoError

(* C20: certificate decoder.  A cert field of 5 segments that holds no     *)
(* decodable PEM block, or a block whose type is not "CERTIFICATE", fails  *)
(* with ErrInvalidCertificatePEM whatever the key field holds.             *)
C20_CertificateDecoder ==
    (pc = "decoded" /\ Segments(certData.Cert) = 5
         /\ (~HoldsBlock(certData.Cert) \/ Label(certData.Cert) # TypeCertificate))
        => result.err = ErrInvalidCertificatePEM
\* a block of another type, with a key field that is no PEM at all
C20_Witness ==
    /\ pc = "decoded"
    /\ HoldsBlock(certData.Cert) /\ Label(certData.Cert) = TypeRSA
    /\ Segments(certData.Key) # 5
    /\ result.err = ErrInvalidCertificatePEM

(* C19: stable cascade order.  When User.ValidateNormalize succeeds, Certs *)
(* has the length it had and its i-th entry is the re-encoded form of the  *)
(* record decoded from the original i-th entry, for every i.               *)
C19_StableCascadeOrder ==
    (handler = "ValidateNormalize" /\ validateErr = NoError) =>
        /\ Len(user.Certs) = Len(userBefore.Certs)
        /\ \A i \in 1..Len(userBefore.Certs) :
              LET cert == NewCertificateFromData(userBefore.Certs[i], OptVerifyCertificate)
              IN cert.err = NoError /\ user.Certs[i] = GetData(cert.cert[1])
\* two different certificates, both accepted
C19_Witness ==
    /\ handler = "ValidateNormalize" /\ validateErr = NoError
    /\ Len(userBefore.Certs) = 2
    /\ userBefore.Certs[1] # userBefore.Certs[2]
    /\ user.Certs[1] # user.Certs[2]
    /\ user.Certs # userBefore.Certs

(* C17: error-to-status mapping.  HandleError with httpCode 0 answers 404  *)
(* for ErrNotFound, 400 for every validation failure (the codec's errors,  *)
(* a chain-verification failure, the user id, name and email errors) and   *)
(* 500 for any other error; a non-zero httpCode is used as given.          *)
C17_ErrorStatus ==
    handler = "HandleError" =>
        LET e == call.err
            httpCode == call.args[1]
            status == response[1].code
            validationFailures ==
                { ErrInvalidPEMBlock, ErrInvalidCertificatePEM, ErrMissingPrivateKey,
                  ErrDSANotSupported, ErrInvalidPrivateKey, ErrInvalidCertificateId,
                  ErrKeyTooSmall, ErrX509Verify, ErrInvalidUserId, ErrInvalidUserName,
                  ErrInvalidUserEmail }
        IN
        /\ httpCode # 0 => status = httpCode
        /\ httpCode = 0 =>
              status = IF e = ErrNotFound THEN StatusNotFound
                       ELSE IF e \in validationFailures THEN StatusBadRequest
                       ELSE StatusInternalServerError

----------------------------------------------------------------------------
(* What a store holds, said without the persistence functions *)

\* the store holds a certificate of this user under this Id
HoldsCert(store, userid, certid) ==
    \E i \in 1..Len(store.certs) :
       store.certs[i].userid = userid /\ store.certs[i].id = Char64(certid)
HoldsUser(store, userid) == \E row \in store.users : row.id = userid
\* the certificate rows with the active flag of (userid, certid) set
WithActive(rows, userid, certid, active) ==
    [i \in 1..Len(rows) |->
        IF rows[i].userid = userid /\ rows[i].id = Char64(certid)
        THEN [rows[i] EXCEPT !.active = active]
        ELSE rows[i]]
\* a certificate row without its active flag
Fields(row) == <<row.id, row.userid, row.cert, row.key>>

(* C13: updateActive.  DatabaseUpdateCertActive(userid, certid, active)    *)
(* sets the active flag of the stored certificate (userid, certid) to the  *)
(* given value, changes nothing else and returns nil; when the store holds *)
(* no such certificate it returns ErrNotFound and the store is unchanged.  *)
C13_UpdateActive ==
    call.op = "DatabaseUpdateCertActive" =>
        LET userid == call.args[1]
            certid == call.args[2]
            active == call.args[3]
        IN
        IF HoldsCert(dbBefore, userid, certid)
        THEN /\ call.err = NoError
             /\ db = [dbBefore EXCEPT
                         !.certs = WithActive(dbBefore.certs, userid, certid, active)]
        ELSE /\ call.err = ErrNotFound
             /\ db = dbBefore

(* C14: cascade delete.  After DatabaseDeleteUser(u) returns nil the store *)
(* holds neither user u nor a certificate of u, and every other user and   *)
(* certificate is as before; it returns nil when u existed, and for a u   *)
(* that does not exist it returns ErrNotFound and the store is unchanged.  *)
C14_CascadeDelete ==
    call.op = "DatabaseDeleteUser" =>
        LET u == call.args[1] IN
        /\ call.err = NoError =>
              /\ ~HoldsUser(db, u)
              /\ \A i \in 1..Len(db.certs) : db.certs[i].userid # u
              /\ db.users = {row \in dbBefore.users : row.id # u}
              /\ db.certs = SelectSeq(dbBefore.certs, LAMBDA row : row.userid # u)
        /\ HoldsUser(dbBefore, u) => call.err = NoError
        /\ ~HoldsUser(dbBefore, u) => (call.err = ErrNotFound /\ db = dbBefore)
\* a user with certificates is deleted while another user keeps theirs
C14_Witness ==
    /\ call.op = "DatabaseDeleteUser" /\ call.err = NoError
    /\ \E i \in 1..Len(dbBefore.certs) : dbBefore.certs[i].userid = call.args[1]
    /\ Len(db.certs) > 0
    /\ db.users # {}

(* C15: atomic user creation.  While DatabaseCreateUser runs, and after it *)
(* has failed, the store holds neither its user row nor any of its         *)
(* certificate rows; after it has returned nil the store holds the user    *)
(* row and all of them; and a DatabaseReadUser that returns a user returns *)
(* it with the whole certificate list it was created with.                 *)
C15_AtomicCreate ==
    LET id == tx.user.Id
        committed == tx.pc = "done" /\ tx.err = NoError
    IN
    /\ (tx.pc # "idle" /\ ~committed) =>
          /\ ~HoldsUser(db, id)
          /\ \A i \in 1..Len(db.certs) : db.certs[i].userid # id
    /\ committed =>
          /\ HoldsUser(db, id)
          /\ FetchUserCerts(db, id) = tx.user.Certs
    /\ (reader.pc = "done" /\ reader.err = NoError) =>
          /\ reader.user.Certs = FetchUserCerts(db, reader.userid)
          /\ reader.userid = id => (committed /\ reader.user.Certs = tx.user.Certs)
\* a reader that looked while the user row and a certificate row were
\* inserted and not yet committed
C15_Witness ==
    /\ tx.pc = "certs" /\ tx.i = 2 /\ Len(tx.user.Certs) = 2
    /\ reader.pc = "done"
    /\ reader.userid = tx.user.Id
    /\ reader.err = ErrNotFound

(* C16: immutability of stored certificates.  Whatever persistence         *)
(* function was called last, every certificate the store held before and   *)
(* still holds has the id, userid, cert and key it had, new certificates   *)
(* come from DatabaseCreateUser alone, and DatabaseUpdateCertActive        *)
(* returns no certificate validation error.                                *)
C16_StoredCertsImmutable ==
    /\ \A i \in 1..Len(db.certs) :
          \/ \E j \in 1..Len(dbBefore.certs) : Fields(db.certs[i]) = Fields(dbBefore.certs[j])
          \/ call.op = "DatabaseCreateUser" /\ ~HoldsUser(dbBefore, db.certs[i].userid)
    /\ call.op = "DatabaseUpdateCertActive" =>
          call.err \in {NoError, ErrNotFound, ErrPgBool, ErrPgInt}
\* a user row was updated and the user's certificates are what they were
C16_Witness ==
    /\ call.op = "DatabaseUpdateUser" /\ call.err = NoError
    /\ db.users # dbBefore.users
    /\ HoldsCert(db, call.args[1], NormEC.Id)
    /\ db.certs = dbBefore.certs

----------------------------------------------------------------------------
(* What the normalizer does to a text, said position by position *)

\* the number of delimiters before position i of text
DelimsBefore(text, i) == Cardinality({j \in 1..(i - 1) : text[j] = Delim})
\* position i of text lies in its third segment
InBody(text, i) == text[i] # Delim /\ DelimsBefore(text, i) = 2
\* text with the spaces of its third segment turned into newlines
BodySpacesToNewlines(text) ==
    [i \in 1..Len(text) |-> IF InBody(text, i) /\ text[i] = SP THEN NL ELSE text[i]]
HasSpace(seg) == \E i \in 1..Len(seg) : seg[i] = SP

(* C21: PEM normalizer frame.  For a field of exactly 5 segments           *)
(* PEMBlockNormalize returns nil error and the field with every space of   *)
(* the third segment replaced by a newline, every other position           *)
(* (delimiters, both marker segments, leading and trailing segment) as it  *)
(* was; on a field whose body has no space it returns the field itself.    *)
C21_NormalizerFrame ==
    /\ pc = "decoded" =>
          \A text \in {certData.Cert, certData.Key} :
             Segments(text) = 5 =>
                /\ PEMBlockNormalize(text).err = NoError
                /\ PEMBlockNormalize(text).bytes = BodySpacesToNewlines(text)
    /\ pc = "redecoded" =>
          \A text \in {encoded.Cert, encoded.Key} :
             (Segments(text) = 5 /\ ~HasSpace(Split(text)[3])) =>
                PEMBlockNormalize(text).bytes = text
\* a field with spaces in its markers and in its body: the body changes, the
\* markers do not
C21_Witness ==
    /\ pc = "decoded"
    /\ Segments(certData.Key) = 5
    /\ HasSpace(Split(certData.Key)[2]) /\ HasSpace(Split(certData.Key)[3])
    /\ HasSpace(Split(certData.Key)[4])
    /\ PEMBlockNormalize(certData.Key).bytes # certData.Key
    /\ Split(PEMBlockNormalize(certData.Key).bytes)[2] = Split(certData.Key)[2]
    /\ ~HasSpace(Split(PEMBlockNormalize(certData.Key).bytes)[3])

(* C22: certificate filter on read.  For a user the store holds,           *)
(* ReadUserHandler answers with the user; with show-certs=active its Certs *)
(* are exactly the stored certificates of the user that are active, with   *)
(* show-certs=inactive exactly those that are not, in stored order; no     *)
(* request ends in an out-of-range slice access.                           *)
C22_CertificateFilter ==
    (handler = "ReadUserHandler" /\ HoldsUser(db, call.args[1])) =>
        LET stored == FetchUserCerts(db, call.args[1])
            limitcerts == call.args[2]
        IN
        /\ response[1].kind = "user"
        /\ limitcerts = LimitCertsActive =>
              response[1].result.Certs = SelectSeq(stored, LAMBDA c : c.Active)
        /\ limitcerts = LimitCertsInactive =>
              response[1].result.Certs = SelectSeq(stored, LAMBDA c : ~c.Active)

\* the row of a user the store holds
RowOf(store, userid) == CHOOSE row \in store.users : row.id = userid

(* C23: PATCH frame.  For a PATCH on a well-formed user id whose body is a *)
(* JSON object: a non-empty id is refused with ErrBadPatchID and a         *)
(* non-empty certs list with ErrBadPatchCerts, both with status 400 and    *)
(* without a persistence write; otherwise, when the store holds the user,  *)
(* the stored name and email become those of the patch where the patch     *)
(* gives a non-empty one and stay what they were where it gives an empty   *)
(* one, and the user's id, every other user and every stored certificate   *)
(* are what they were.                                                     *)
C23_PatchFrame ==
    (handler = "UpdateUserHandler" /\ GetUserID(call.args[1]) = NoError
         /\ call.args[2] # <<>>) =>
        LET userid == call.args[1]
            userPatch == call.args[2][1]
            refused(e) ==
                /\ response = <<HandleError(e, StatusBadRequest)>>
                /\ response[1].code = StatusBadRequest /\ response[1].err = e
                /\ dbWrites = <<>>
                /\ db = dbBefore
        IN
        /\ userPatch.Id # "" => refused(ErrBadPatchID)
        /\ (userPatch.Id = "" /\ Len(userPatch.Certs) # 0) => refused(ErrBadPatchCerts)
        /\ (userPatch.Id = "" /\ Len(userPatch.Certs) = 0 /\ HoldsUser(dbBefore, userid)) =>
              LET old == RowOf(dbBefore, userid) IN
              /\ db.users = (dbBefore.users \ {old}) \cup
                    {UserRow(userid,
                             IF userPatch.Name # "" THEN userPatch.Name ELSE old.name,
                             IF userPatch.Email # "" THEN userPatch.Email ELSE old.email)}
              /\ db.certs = dbBefore.certs
              /\ db.serial = dbBefore.serial
\* a patch of the name alone on a user with a certificate
C23_Witness ==
    /\ handler = "UpdateUserHandler"
    /\ call.args[2] # <<>>
    /\ call.args[2][1] = User("", "Bo", "", <<>>)
    /\ HoldsUser(dbBefore, call.args[1])
    /\ RowOf(dbBefore, call.args[1]).name = "Al"
    /\ RowOf(db, call.args[1]) =
          UserRow(call.args[1], "Bo", RowOf(dbBefore, call.args[1]).email)
    /\ Len(db.certs) = 1
    /\ db.certs = dbBefore.certs
    /\ response[1].kind = "result"

(* C24: concurrent PATCH.  When two UpdateUserHandler requests for the     *)
(* same user, one giving only a new name and the other only a new email,   *)
(* have both returned, the stored user carries the new name and the new    *)
(* email, whatever the order of their reads and writes.                    *)
C24_NoLostUpdate ==
    (/\ \A p \in Patchers : patch[p].pc = "done" /\ patch[p].user # NoUser
     /\ {patch[p].body : p \in Patchers} =
            {User("", "Bo", "", <<>>), User("", "", "bo@example.org", <<>>)})
    => /\ RowOf(db, PatchedUserId).name = "Bo"
       /\ RowOf(db, PatchedUserId).email = "bo@example.org"

\* no two certificate rows of the store have the same (id, userid)
UniqueKeys(store) ==
    \A i, j \in 1..Len(store.certs) :
       (store.certs[i].id = store.certs[j].id
           /\ store.certs[i].userid = store.certs[j].userid) => i = j
\* a list of certificates names the same Id twice
RepeatsId(certs) == \E i, j \in 1..Len(certs) : i # j /\ certs[i].Id = certs[j].Id

(* C26: key uniqueness.  Whatever persistence functions were called, no    *)
(* two stored certificates have the same (id, userid).  DatabaseCreateCert *)
(* of an (id, userid) the store holds fails and leaves the store as it     *)
(* was; of one it does not hold, for a stored user, it succeeds even when  *)
(* another user holds that id.  DatabaseCreateUser with a list naming an   *)
(* Id twice fails and leaves neither the user nor any of the certificates. *)
C26_KeyUniqueness ==
    /\ UniqueKeys(db)
    /\ call.op = "DatabaseCreateCert" =>
          LET userid == call.args[1]
              certid == call.args[2]
          IN
          /\ HoldsCert(dbBefore, userid, certid) =>
                (call.err = ErrDuplicateKey /\ db = dbBefore)
          /\ (~HoldsCert(dbBefore, userid, certid) /\ HoldsUser(dbBefore, userid)) =>
                (call.err = NoError /\ HoldsCert(db, userid, certid))
    /\ (call.op = "DatabaseCreateUser" /\ RepeatsId(call.args[1])) =>
          /\ call.err = ErrDuplicateKey
          /\ db.users = dbBefore.users
          /\ db.certs = dbBefore.certs
\* a second insert of a certificate is refused while two users hold its Id
C26_Witness ==
    /\ call.op = "DatabaseCreateCert" /\ call.err = ErrDuplicateKey
    /\ db = dbBefore
    /\ \E i, j \in 1..Len(db.certs) :
          /\ db.certs[i].id = call.args[2] /\ db.certs[j].id = call.args[2]
          /\ db.certs[i].userid = call.args[1] /\ db.certs[j].userid # call.args[1]

(* C25: referential integrity.  Under every interleaving of                *)
(* DatabaseCreateUser, DatabaseCreateCert, DatabaseDeleteCert and          *)
(* DatabaseDeleteUser every committed certificate row has the userid of a  *)
(* committed user row, and every certificate row DatabaseCreateUser        *)
(* inserts has the id its user row was given, whatever UserId the          *)
(* certificate was sent with.                                              *)
C25_ReferentialIntegrity ==
    /\ \A i \in 1..Len(db.certs) : HoldsUser(db, db.certs[i].userid)
    /\ \A i \in 1..Len(tx.certs) : tx.certs[i].userid = tx.user.Id
    /\ (tx.pc = "done" /\ tx.err = NoError) =>
          \A i \in 1..Len(tx.user.Certs) : tx.user.Certs[i].UserId = tx.user.Id
\* DatabaseDeleteUser was refused because a certificate was inserted after
\* it had deleted the user's certificates; the user was created with a
\* certificate sent under another user id
C25_Witness ==
    /\ del.pc = "done" /\ del.err = ErrStillReferenced
    /\ HoldsUser(db, del.userid)
    /\ tx.pc = "done" /\ tx.err = NoError
    /\ tx.user.Id = del.userid
    /\ tx.user.Certs = <<[Foreign EXCEPT !.UserId = tx.user.Id]>>
    /\ Foreign.UserId # tx.user.Id
    /\ HoldsCert(db, tx.user.Id, Foreign.Id)

====
